---- MODULE Spec2Model ----
(***************************************************************************)
(* Model of the blunder-detection walk of llm-chess-coach:                 *)
(*   core/analysis.py  StockfishAnalyzer.get_centipawns, LLMCoach,         *)
(*                     GameProcessor.analyze_game / _get_move_analysis /   *)
(*                     _handle_blunder                                     *)
(*   coach.py          get_centipawns (the script variant)                 *)
(*   database.py       Database.save_blunder                               *)
(*                                                                         *)
(* A position of the mainline is its ply index (position k is the board    *)
(* after k half-moves); a move is named by the ply it is played at.        *)
(***************************************************************************)
EXTENDS Integers, Sequences, FiniteSets, TLC

\* ------------------------------------------------------------------ bounds
\* Longest mainline (in half-moves) the walk is run over.
MaxMoves == 2
\* Scores are taken within MaxDelta of 0, +30000 and -30000 when the
\* normaliser and the drop are exercised on their own.
MaxDelta == 2
\* Longest run of whitespace put on each side of the body of a reply.
MaxPad == 1
\* Number of times the analysis is run over the same source.
MaxRuns == 2
\* Number of analyses running at the same time.
MaxWalks == 2

\* ------------------------------------------------------- program constants
\* core/analysis.py:86  mate_score = 30000
mate_score == 30000
\* api/main.py:27  BLUNDER_THRESHOLD = 150 (also GameProcessor's default)
BLUNDER_THRESHOLD == 150

\* --------------------------------------------------------------- variables
VARIABLES
    pc,                \* "Start" | "Scanning" | "Investigating" | "Recording" | "Done"
                       \* | "Raised" (an exception left the walk)
                       \* | "Aborted" (an exception before the walk) | "Returned" (the
                       \* script printed an error and returned before the walk)
    setup,             \* what the construction and the reading of the game record met
    evalCalls,         \* the position of every get_stockfish_evaluation call so far
    bestMoveCalls,     \* the get_best_move calls so far: the position, and how many
                       \* evaluations had been asked for before
    idx,               \* mainline nodes the loop has taken so far
    board,             \* the walker's board: the number of moves on its stack
    startTurn,         \* board.turn of game.board(): "White" | "Black"
    side_to_analyze,   \* analyze_game's side_to_analyze argument
    blunder_threshold, \* GameProcessor.blunder_threshold
    dbKind,            \* what GameProcessor.db is: "Database" | "MagicMock"
    cur,               \* locals of the loop body for the half-move last stepped
    analysis,          \* dict returned by _get_move_analysis, pending in _handle_blunder
    records,           \* analysis dicts created so far, in creation order
    advisorCalls,      \* arguments of the coach.get_analysis calls made so far
    chatCalls,         \* the ply of every ollama.chat request sent so far
    comments,          \* node.comment of every mainline node (by ply)
    saveCalls,         \* arguments of the db.save_blunder calls made so far
    rows,              \* the rows of the blunders table, in insertion order
    sc,                \* a single normalisation / drop computation (SpecScore)
    runs,              \* walks over the same inputs: one per side filter (SpecSides),
                       \* or one per variant of the program (SpecVariants)
    pa,                \* a single call of the advisor adapter (SpecParse)
    st,                \* repeated runs over one source against the Database (SpecStore)
    eng                \* analyses running at once, each with its adapter (SpecEngines)

vars == << pc, setup, evalCalls, bestMoveCalls, idx, board, startTurn, side_to_analyze,
           blunder_threshold, dbKind, cur, analysis, records, advisorCalls, chatCalls,
           comments, saveCalls, rows, sc, runs, pa, st, eng >>

walkVars == << pc, setup, evalCalls, bestMoveCalls, idx, board, startTurn, side_to_analyze,
               blunder_threshold, dbKind, cur, analysis, records, advisorCalls,
               chatCalls, comments, saveCalls, rows >>

walkVarsButRows ==
    << pc, setup, evalCalls, bestMoveCalls, idx, board, startTurn,
       side_to_analyze,
       blunder_threshold, dbKind, cur, analysis, records, advisorCalls, chatCalls,
       comments, saveCalls >>

\* ------------------------------------------------------------ small helpers
Abs(x) == IF x < 0 THEN 0 - x ELSE x

Sign(x) == IF x < 0 THEN 0 - 1 ELSE IF x > 0 THEN 1 ELSE 0

Range(s) == { s[i] : i \in 1..Len(s) }

\* Python's None and an int, as one type.
None == [some |-> FALSE, val |-> 0]

Some(v) == [some |-> TRUE, val |-> v]

\* Stockfish evaluation dictionaries {'type': ..., 'value': ...}.
Cp(v) == [type |-> "cp", value |-> v]

Mate(v) == [type |-> "mate", value |-> v]

\* A score kind the normaliser does not know (neither 'cp' nor 'mate').
Other(v) == [type |-> "wdl", value |-> v]

\* ------------------------------------------------------ Score Normalizer
\* Mutant: the sentinel is one digit short.
get_centipawns_short_sentinel(evaluation) ==
    IF evaluation.type = "cp" THEN Some(evaluation.value)
    ELSE IF evaluation.type = "mate"
         THEN IF evaluation.value < 0 THEN Some(0 - 3000) ELSE Some(3000)
         ELSE None

\* Mutant: a mate score is passed through like a centipawn score.
get_centipawns_mate_as_cp(evaluation) ==
    IF evaluation.type = "cp" \/ evaluation.type = "mate" THEN Some(evaluation.value)
    ELSE None

\* StockfishAnalyzer.get_centipawns (core/analysis.py:67-88).
get_centipawns(evaluation) ==
    IF evaluation.type = "cp" THEN Some(evaluation.value)
    ELSE IF evaluation.type = "mate"
         THEN IF evaluation.value < 0 THEN Some(0 - mate_score) ELSE Some(mate_score)
         ELSE None

\* get_centipawns of the script (coach.py:39-54): unknown kinds give 0.
coach_get_centipawns(evaluation) ==
    IF evaluation.type = "cp" THEN evaluation.value
    ELSE IF evaluation.type = "mate"
         THEN IF evaluation.value < 0 THEN 0 - mate_score ELSE mate_score
         ELSE 0

\* ------------------------------------------------------------ the walk
Opposite(color) == IF color = "White" THEN "Black" ELSE "White"

\* Mutant: the colour is read after the move is pushed.
player_color_after_push(first, k) == IF k % 2 = 0 THEN Opposite(first) ELSE first

\* board.turn before the half-move at ply k (core/analysis.py:262).
player_color_at(first, k) == IF k % 2 = 0 THEN first ELSE Opposite(first)

\* board.fullmove_number before the half-move at ply k (core/analysis.py:263);
\* it starts at 1 and grows after each Black move.
move_number_at(first, k) ==
    IF first = "White" THEN 1 + (k \div 2) ELSE 1 + ((k + 1) \div 2)

\* Mutant: the drop is taken White-minus for both colours.
eval_drop_white_only(player_color, eval_before, eval_after) ==
    eval_before - eval_after

\* The evaluation drop (core/analysis.py:279-283).
eval_drop_of(player_color, eval_before, eval_after) ==
    IF player_color = "White" THEN eval_before - eval_after
    ELSE eval_after - eval_before

\* str.lower() on the side names the walk compares.
Lower(s) ==
    CASE s = "White" -> "white"
      [] s = "WHITE" -> "white"
      [] s = "Black" -> "black"
      [] s = "Both"  -> "both"
      [] OTHER       -> s

\* Mutant: the comparison with the threshold is not strict.
is_blunder_not_strict(side, player_color, drop, threshold) ==
    /\ (side = "both" \/ Lower(side) = Lower(player_color))
    /\ drop >= threshold

\* Mutant: the parentheses around the side test are missing, so 'both'
\* passes whatever the drop is.
is_blunder_no_parens(side, player_color, drop, threshold) ==
    \/ side = "both"
    \/ (Lower(side) = Lower(player_color) /\ drop > threshold)

\* Mutant: the side filter is not applied.
is_blunder_any_side(side, player_color, drop, threshold) ==
    drop > threshold

\* Mutant: 'both' is matched in any case, like the colour names.
is_blunder_both_any_case(side, player_color, drop, threshold) ==
    /\ (Lower(side) = "both" \/ Lower(side) = Lower(player_color))
    /\ drop > threshold

\* The blunder test of the walk (core/analysis.py:296-298).
is_blunder(side, player_color, drop, threshold) ==
    /\ (side = "both" \/ Lower(side) = Lower(player_color))
    /\ drop > threshold

\* Mutant: the game-over test is dropped.
skips_never(game_over) == FALSE

\* "If the game is over, no need to analyze for blunders" (core/analysis.py:291-293).
skips_game_over(game_over) == game_over


\* ------------------------------------------------- inputs of the walk
\* Evaluations the engine answers with during a walk.
WalkEvals == { Cp(50), Cp(200), Cp(1000), Mate(1), Mate(0 - 1), Other(0) }

\* Thresholds a GameProcessor is constructed with (any int is accepted,
\* core/analysis.py:207-221).
Thresholds == { 0 - 200, 0, BLUNDER_THRESHOLD }

\* Values passed as side_to_analyze.
Sides == { "white", "black", "both", "Black", "Both" }

\* What the language-model call does: a well-formed reply, a reply that is
\* not JSON, or an exception of the transport.
AdvisorReplies == { "ok", "malformed", "transport_error" }

\* What GameProcessor.db is: the repository's Database, or the MagicMock the
\* tests pass (tests/test_minimal.py).
DbKinds == { "Database", "MagicMock" }

Plies == 0..(MaxMoves - 1)

\* ------------------------------------------------------ Advisor Adapter
\* A Python str is a sequence of tokens. A token is a code-fence marker
\* (three backticks), the word json or another language tag, a run of
\* whitespace, free text, or the text of one JSON value (an object with some
\* of the keys, or an array).
Tok(kind, keys, s) == [ kind |-> kind, keys |-> keys, s |-> s ]

FENCE == Tok("fence", {}, "fence")

TAG_JSON == Tok("tag", {}, "json")

TAG_OTHER == Tok("tag", {}, "javascript")

WS == Tok("ws", {}, " ")

Text(s) == Tok("text", {}, s)

ARRAY == Tok("array", {}, "[1, 2]")

\* The text of a JSON object that has the keys of the set keys.
Obj(keys) == Tok("object", keys, "{...}")

\* A str of one piece of text.
Str(s) == << Text(s) >>

Keys == { "motif", "severity", "explanation" }

\* The value a reply's object gives a key.
ObjectValue(key) ==
    CASE key = "motif"    -> Str("Fork")
      [] key = "severity" -> Str("Blunder")
      [] OTHER            -> Str("It hangs the knight.")

\* i is where an occurrence of '```json' starts in content.
json_fence_at(content, i) ==
    /\ i + 1 <= Len(content)
    /\ content[i] = FENCE
    /\ content[i + 1] = TAG_JSON

\* '```json' in content (core/analysis.py:180).
has_json_fence(content) == \E i \in 1..Len(content) : json_fence_at(content, i)

\* content.split('```json')[1] (core/analysis.py:181): what lies between the
\* first occurrence of '```json' and the next one (or the end).
split_json_fence_1(content) ==
    LET i    == CHOOSE k \in 1..Len(content) :
                   /\ json_fence_at(content, k)
                   /\ \A m \in 1..(k - 1) : ~json_fence_at(content, m)
        rest == SubSeq(content, i + 2, Len(content))
        next == { k \in 1..Len(rest) : json_fence_at(rest, k) }
    IN IF next = {} THEN rest
       ELSE SubSeq(rest, 1, (CHOOSE k \in next : \A m \in next : k <= m) - 1)

\* content.split('```')[0] (core/analysis.py:181): what precedes the first
\* fence marker.
split_fence_0(content) ==
    LET at == { k \in 1..Len(content) : content[k] = FENCE }
    IN IF at = {} THEN content
       ELSE SubSeq(content, 1, (CHOOSE k \in at : \A m \in at : k <= m) - 1)

\* str.strip() (core/analysis.py:182).
strip(content) ==
    LET solid == { k \in 1..Len(content) : content[k].kind # "ws" }
    IN IF solid = {} THEN << >>
       ELSE SubSeq(content, CHOOSE k \in solid : \A m \in solid : k <= m,
                            CHOOSE k \in solid : \A m \in solid : k >= m)

\* "Clean the content to extract the JSON object" (core/analysis.py:179-182).
clean_content(content) ==
    strip(IF has_json_fence(content)
          THEN split_fence_0(split_json_fence_1(content))
          ELSE content)

\* json.loads (core/analysis.py:186): the text of exactly one JSON value
\* decodes; anything else raises JSONDecodeError.
json_loads(content) ==
    IF Len(content) = 1 /\ content[1].kind \in { "object", "array" }
    THEN [ ok |-> TRUE, value |-> content[1] ]
    ELSE [ ok |-> FALSE, value |-> WS ]

\* dict.get(key, default).
dict_get(d, key, default) == IF key \in d.keys THEN ObjectValue(key) ELSE default

\* What ollama.chat did: it raised exc, or it answered with content.
ChatRaise(exc) == [ kind |-> "raise", exc |-> exc, content |-> << >> ]

ChatReply(content) == [ kind |-> "reply", exc |-> "", content |-> content ]

NoTriple == << << >>, << >>, << >> >>

\* What a call of the adapter did: it returned a triple, or it raised exc.
Returned(motif, severity, explanation) ==
    [ raised |-> FALSE, exc |-> "", triple |-> << motif, severity, explanation >> ]

Raises(exc) == [ raised |-> TRUE, exc |-> exc, triple |-> NoTriple ]

\* f"Error getting analysis from Ollama: {e}" (core/analysis.py:196).
Diagnostic(exc) == << Text("Error getting analysis from Ollama: "), Text(exc) >>

\* Mutant: one missing key makes all three fields fall back to the defaults.
object_triple_all_or_nothing(d) ==
    IF Keys \subseteq d.keys
    THEN << ObjectValue("motif"), ObjectValue("severity"), ObjectValue("explanation") >>
    ELSE << Str("Uncategorized"), Str("Unknown"), Str("No explanation provided.") >>

\* The three .get calls on the decoded object (core/analysis.py:187-190).
object_triple(d) ==
    << dict_get(d, "motif", Str("Uncategorized")),
       dict_get(d, "severity", Str("Unknown")),
       dict_get(d, "explanation", Str("No explanation provided.")) >>

\* From the reply's content to the return (core/analysis.py:177-193). A
\* decoded value that is not an object has no .get: AttributeError, which
\* the inner except (JSONDecodeError, KeyError) lets through.
parse_reply(content) ==
    LET cleaned == clean_content(content)
        decoded == json_loads(cleaned)
    IN IF ~decoded.ok
       THEN Returned(Str("Uncategorized"), Str("Error"), cleaned)
       ELSE IF decoded.value.kind = "object"
            THEN LET t == object_triple(decoded.value)
                 IN Returned(t[1], t[2], t[3])
            ELSE Raises("AttributeError")

\* The try block of the adapter (core/analysis.py:171-196, coach.py:109-134):
\* whatever is raised inside it comes back as the ("Error", "Error", ...) triple.
chat_try(chat) ==
    IF chat.kind = "raise"
    THEN Returned(Str("Error"), Str("Error"), Diagnostic(chat.exc))
    ELSE LET r == parse_reply(chat.content)
         IN IF r.raised
            THEN Returned(Str("Error"), Str("Error"), Diagnostic(r.exc))
            ELSE r

\* Mutant: the outer except is missing, an exception of the chat call
\* leaves the adapter.
LLMCoach_get_analysis_no_outer_except(promptThere, chat) ==
    IF ~promptThere THEN Raises("FileNotFoundError")
    ELSE IF chat.kind = "raise" THEN Raises(chat.exc)
    ELSE chat_try(chat)

\* LLMCoach.get_analysis (core/analysis.py:139-196): _load_system_prompt
\* (line 155, outside the try) raises FileNotFoundError when the prompt file
\* is not there; then the chat call and the parsing.
LLMCoach_get_analysis(promptThere, chat) ==
    IF ~promptThere THEN Raises("FileNotFoundError")
    ELSE chat_try(chat)

\* get_llm_analysis of the script (coach.py:56-134): the prompt is inline.
get_llm_analysis(chat) == chat_try(chat)

\* ---- the advisor adapter on abstract replies
\* LLMCoach.get_analysis (core/analysis.py:171-196), by what the chat call did.
get_analysis(reply) ==
    CASE reply = "ok"        -> << "Fork", "Blunder", "explanation" >>
      [] reply = "malformed" -> << "Uncategorized", "Error", "raw content" >>
      [] OTHER               -> << "Error", "Error", "Error getting analysis from Ollama" >>

\* ------------------------------------------------------ records
NoCur ==
    [ node |-> 0 - 1, player_color |-> "White", move_number |-> 0,
      eval_before_dict |-> Cp(0), eval_after_dict |-> Cp(0),
      eval_before |-> None, eval_after |-> None,
      has_drop |-> FALSE, eval_drop |-> 0, game_over |-> FALSE ]

\* The locals of one loop iteration up to the drop (core/analysis.py:259-283).
\* eval_before - eval_after raises TypeError when either is None: no drop.
loop_locals(first, k, eb, ea, over) ==
    LET color  == player_color_at(first, k)
        before == get_centipawns(eb)
        after  == get_centipawns(ea)
        ok     == before.some /\ after.some
    IN [ node |-> k, player_color |-> color, move_number |-> move_number_at(first, k),
         eval_before_dict |-> eb, eval_after_dict |-> ea,
         eval_before |-> before, eval_after |-> after,
         has_drop |-> ok,
         eval_drop |-> IF ok THEN eval_drop_of(color, before.val, after.val) ELSE 0,
         game_over |-> over ]

\* Where the loop body goes after the drop (core/analysis.py:279-298).
after_scan(c, side, threshold) ==
    IF ~c.has_drop THEN "Raised"
    ELSE IF skips_game_over(c.game_over) THEN "Scanning"
    ELSE IF is_blunder(side, c.player_color, c.eval_drop, threshold) THEN "Investigating"
    ELSE "Scanning"

NoAnalysis ==
    [ move_number |-> 0, player_color |-> "White", move_san |-> 0 - 1,
      position_fen |-> 0 - 1, eval_drop |-> 0, best_move_san |-> 0 - 1,
      motif |-> "", severity |-> "", explanation |-> "" ]

\* Mutant: the record is filed under the colour to move after the blunder.
analysis_dict_color_after(c, triple) ==
    [ move_number |-> c.move_number, player_color |-> Opposite(c.player_color),
      move_san |-> c.node, position_fen |-> c.node, eval_drop |-> c.eval_drop,
      best_move_san |-> c.node,
      motif |-> triple[1], severity |-> triple[2], explanation |-> triple[3] ]

\* The dict _get_move_analysis returns (core/analysis.py:357-367); the move
\* and the best move are named by the ply, the position by its index.
analysis_dict(c, triple) ==
    [ move_number |-> c.move_number, player_color |-> c.player_color,
      move_san |-> c.node, position_fen |-> c.node, eval_drop |-> c.eval_drop,
      best_move_san |-> c.node,
      motif |-> triple[1], severity |-> triple[2], explanation |-> triple[3] ]

advisor_args_mate_after(c) ==
    [ position_fen |-> c.node, move_san |-> c.node, best_move_san |-> c.node,
      cp_loss |-> c.eval_drop, mate_missed |-> (c.eval_after_dict.type = "mate") ]

\* The arguments of coach.get_analysis (core/analysis.py:345-351).
advisor_args(c) ==
    [ position_fen |-> c.node, move_san |-> c.node, best_move_san |-> c.node,
      cp_loss |-> c.eval_drop, mate_missed |-> (c.eval_before_dict.type = "mate") ]

NoComment == << >>

\* node.comment (core/analysis.py:382).
coach_comment_motif_first(a) == << "[COACH]", a.motif, a.severity, a.explanation >>

coach_comment(a) == << "[COACH]", a.severity, a.motif, a.explanation >>

\* The comments of the mainline nodes after node.comment = ... on the node of
\* ply k (core/analysis.py:382; coach.py:247): an assignment to that node's
\* comment, whatever it held; no other node is touched.
attach_comment_appending(cs, k, a) == [ cs EXCEPT ![k] = cs[k] \o coach_comment(a) ]

attach_comment(cs, k, a) == [ cs EXCEPT ![k] = coach_comment(a) ]

\* The comments of the game when an exception leaves analyze_game: the loop
\* has no try, except or finally (core/analysis.py:254-306), and neither
\* helper has one, so the exception undoes nothing.
comments_at_raise_rolled_back(cs) == [ j \in DOMAIN cs |-> NoComment ]

comments_at_raise(cs) == cs

\* ------------------------------------------------------ the store
\* The parameters of Database.save_blunder (database.py:68); none has a
\* default.
SaveBlunderParams ==
    { "pgn_path", "move_number", "player_color", "move_san", "position_fen",
      "eval_drop", "best_move_san", "coach_comment", "mistake_tag" }

\* The keywords _handle_blunder calls save_blunder with
\* (core/analysis.py:385-396; coach.py:250-261 passes the same).
HandleBlunderKeywords ==
    { "pgn_path", "move_number", "player_color", "move_san", "position_fen",
      "eval_drop", "best_move_san", "coach_comment", "motif", "severity" }

\* The pgn_path of the game walked.
GamePath == "game.pgn"

\* The call _handle_blunder makes for the analysis dict a.
handle_blunder_call(a, pgn_path) ==
    [ keywords |-> HandleBlunderKeywords,
      args |-> [ pgn_path |-> pgn_path, move_number |-> a.move_number,
                 player_color |-> a.player_color, move_san |-> a.move_san,
                 position_fen |-> a.position_fen, eval_drop |-> a.eval_drop,
                 best_move_san |-> a.best_move_san, coach_comment |-> a.explanation,
                 motif |-> a.motif, severity |-> a.severity ] ]

\* A call that names the parameters save_blunder has.
signature_call(a, pgn_path) ==
    [ keywords |-> SaveBlunderParams,
      args |-> [ pgn_path |-> pgn_path, move_number |-> a.move_number,
                 player_color |-> a.player_color, move_san |-> a.move_san,
                 position_fen |-> a.position_fen, eval_drop |-> a.eval_drop,
                 best_move_san |-> a.best_move_san, coach_comment |-> a.explanation,
                 mistake_tag |-> a.motif ] ]

\* The connection of a Database: open; not open and connect() works; not
\* open and connect() raises (database.py:23-32).
DbStates == { "connected", "connectable", "unreachable" }

\* What the INSERT and the commit do (database.py:75-83).
SqliteOutcomes == { "ok", "error" }

\* The row the INSERT makes (database.py:77-80); id is AUTOINCREMENT
\* (database.py:51), analysis_timestamp is left out.
inserted_row(table, args) ==
    [ id |-> Len(table) + 1, game_pgn_path |-> args.pgn_path,
      move_number |-> args.move_number, player_color |-> args.player_color,
      move_san |-> args.move_san, position_fen |-> args.position_fen,
      eval_drop |-> args.eval_drop, best_move_san |-> args.best_move_san,
      coach_comment |-> args.coach_comment, mistake_tag |-> args.mistake_tag ]

\* Database.save_blunder (database.py:68-83). A call whose keywords are not
\* the parameters raises TypeError before the body runs; connect() re-raises
\* its sqlite3.Error (database.py:30-32, called outside the try); an
\* sqlite3.Error of the INSERT or the commit is printed and swallowed.
Database_save_blunder(table, call, db, sqlite) ==
    IF call.keywords # SaveBlunderParams
    THEN [ raised |-> TRUE, exc |-> "TypeError", rows |-> table ]
    ELSE IF db = "unreachable"
    THEN [ raised |-> TRUE, exc |-> "sqlite3.Error", rows |-> table ]
    ELSE IF sqlite = "error"
    THEN [ raised |-> FALSE, exc |-> "", rows |-> table ]
    ELSE [ raised |-> FALSE, exc |-> "", rows |-> Append(table, inserted_row(table, call.args)) ]

\* The order SQLite gives rows with the same move_number is not fixed by the
\* statement: by ascending rowid or by descending rowid.
TieOrders == { "rowid_asc", "rowid_desc" }

\* Row x of the table comes before row y under ORDER BY move_number ASC.
row_before(table, x, y, ties) ==
    \/ table[x].move_number < table[y].move_number
    \/ /\ table[x].move_number = table[y].move_number
       /\ IF ties = "rowid_asc" THEN x <= y ELSE x >= y

RECURSIVE order_by_move_number(_, _, _)
order_by_move_number(table, ks, ties) ==
    IF ks = {} THEN << >>
    ELSE LET k == CHOOSE x \in ks : \A y \in ks : row_before(table, x, y, ties)
         IN << table[k] >> \o order_by_move_number(table, ks \ { k }, ties)

\* The SELECT of get_blunders_by_pgn_path (database.py:88-91): the rows of
\* the source ORDER BY move_number ASC, in each order the ties may take.
get_blunders_any_source(table, pgn_path) ==
    { order_by_move_number(table, 1..Len(table), ties) : ties \in TieOrders }

get_blunders_by_pgn_path(table, pgn_path) ==
    LET matching == { k \in 1..Len(table) : table[k].game_pgn_path = pgn_path }
    IN { order_by_move_number(table, matching, ties) : ties \in TieOrders }

NoQuery ==
    [ asked |-> FALSE, pgn_path |-> "", raised |-> FALSE, failed |-> FALSE,
      result |-> << >> ]

\* Database.get_blunders_by_pgn_path as a whole (database.py:85-97): without
\* a connection self.conn is None and self.conn.cursor() raises
\* AttributeError, which the except sqlite3.Error does not catch; an
\* sqlite3.Error of the SELECT is printed and an empty list is returned.
Database_get_blunders_by_pgn_path(table, pgn_path, db, sqlite) ==
    IF db # "connected"
    THEN { [ asked |-> TRUE, pgn_path |-> pgn_path, raised |-> TRUE,
             failed |-> FALSE, result |-> << >> ] }
    ELSE IF sqlite = "error"
    THEN { [ asked |-> TRUE, pgn_path |-> pgn_path, raised |-> FALSE,
             failed |-> TRUE, result |-> << >> ] }
    ELSE { [ asked |-> TRUE, pgn_path |-> pgn_path, raised |-> FALSE,
             failed |-> FALSE, result |-> r ] :
             r \in get_blunders_by_pgn_path(table, pgn_path) }

\* Database.save_blunder takes (..., coach_comment, mistake_tag)
\* (database.py:68); _handle_blunder passes motif= and severity=
\* (core/analysis.py:385-396), which the Database rejects with TypeError
\* before its body runs. A MagicMock accepts any call.
save_blunder_raises(kind) ==
    kind = "Database" /\ HandleBlunderKeywords # SaveBlunderParams

\* ------------------------------------------------------ before the walk
\* What constructing the evaluator meets: the executable is there and
\* starts, it is not there, or Stockfish(...) raises.
EngineOutcomes == { "ok", "not_found", "init_error" }

\* What reading the game record meets: a game, no file, a file that cannot
\* be opened, or a file read_game gets no game from.
PgnOutcomes == { "game", "not_found", "unreadable", "empty" }

NoSetup == [ variant |-> "", engine |-> "", pgn |-> "", exc |-> "", how |-> "" ]

\* Mutant: a record read_game gets no game from is walked all the same.
setup_result_no_none_check(engine, pgn) ==
    IF engine = "not_found"
    THEN [ pc |-> "Aborted", exc |-> "FileNotFoundError", how |-> "raised" ]
    ELSE IF engine = "init_error"
    THEN [ pc |-> "Aborted", exc |-> "Exception", how |-> "raised" ]
    ELSE IF pgn = "not_found"
    THEN [ pc |-> "Aborted", exc |-> "FileNotFoundError", how |-> "raised" ]
    ELSE IF pgn = "unreadable"
    THEN [ pc |-> "Aborted", exc |-> "PermissionError", how |-> "raised" ]
    ELSE [ pc |-> "Scanning", exc |-> "", how |-> "" ]

\* StockfishAnalyzer.__init__ (core/analysis.py:25-39), then the head of
\* GameProcessor.analyze_game (core/analysis.py:240-247): where the caller
\* is afterwards, and the exception it got.
setup_result(engine, pgn) ==
    IF engine = "not_found"
    THEN [ pc |-> "Aborted", exc |-> "FileNotFoundError", how |-> "raised" ]
    ELSE IF engine = "init_error"
    THEN [ pc |-> "Aborted", exc |-> "Exception", how |-> "raised" ]
    ELSE IF pgn = "not_found"
    THEN [ pc |-> "Aborted", exc |-> "FileNotFoundError", how |-> "raised" ]
    ELSE IF pgn = "unreadable"
    THEN [ pc |-> "Aborted", exc |-> "PermissionError", how |-> "raised" ]
    ELSE IF pgn = "empty"
    THEN [ pc |-> "Aborted", exc |-> "ValueError", how |-> "raised" ]
    ELSE [ pc |-> "Scanning", exc |-> "", how |-> "" ]

\* The head of the script's analyze_game (coach.py:146-166): each failure
\* it tests for is printed and the function returns; an open() error other
\* than FileNotFoundError is not caught.
coach_setup_result(engine, pgn) ==
    IF engine = "not_found"
    THEN [ pc |-> "Returned", exc |-> "Stockfish executable not found", how |-> "printed" ]
    ELSE IF engine = "init_error"
    THEN [ pc |-> "Returned", exc |-> "Failed to initialize Stockfish", how |-> "printed" ]
    ELSE IF pgn = "not_found"
    THEN [ pc |-> "Returned", exc |-> "PGN file not found", how |-> "printed" ]
    ELSE IF pgn = "unreadable"
    THEN [ pc |-> "Aborted", exc |-> "PermissionError", how |-> "raised" ]
    ELSE IF pgn = "empty"
    THEN [ pc |-> "Returned", exc |-> "Could not read a valid game", how |-> "printed" ]
    ELSE [ pc |-> "Scanning", exc |-> "", how |-> "" ]

\* ------------------------------------------- the evaluator and the board
\* A position of the game is named by the number of mainline moves that led
\* to it, which is also the height of the board's move stack.
board_pop(b) == b - 1

board_push(b) == b + 1

\* The loop body asks for the evaluation once on the board before the move
\* and once on the board after it (core/analysis.py:266, 273, 276): the
\* positions asked for, in order.
scan_queries_reusing_post(b) ==
    IF b = 0 THEN << b, board_push(b) >> ELSE << board_push(b) >>

scan_queries(b) == << b, board_push(b) >>

\* analyzer.get_best_move(board) (core/analysis.py:337), asked when n
\* evaluations have been asked for.
best_move_query(b, n) == [ position |-> b, evaluations |-> n ]

\* The board when _get_move_analysis returns: popped at line 330, the same
\* move pushed back at line 341.
investigating_board_left_popped(b) == board_pop(b)

investigating_board(b) == board_push(board_pop(b))

\* The number of ollama.chat requests one get_analysis call sends: the call
\* at core/analysis.py:172 is in no loop, whatever comes back.
chat_requests_retrying(reply) == IF reply = "ok" THEN 1 ELSE 2

chat_requests(reply) == 1

\* ------------------------------------------------------ the walk: actions
WalkInit ==
    /\ pc = "Start"
    /\ setup = NoSetup
    /\ evalCalls = << >>
    /\ bestMoveCalls = << >>
    /\ rows = << >>
    /\ idx = 0
    /\ board = 0
    /\ chatCalls = << >>
    /\ startTurn \in { "White", "Black" }
    /\ side_to_analyze \in Sides
    /\ blunder_threshold \in Thresholds
    /\ dbKind \in DbKinds
    /\ cur = NoCur
    /\ analysis = NoAnalysis
    /\ records = << >>
    /\ advisorCalls = << >>
    /\ comments = [ k \in Plies |-> NoComment ]
    /\ saveCalls = << >>

\* The evaluator is constructed and analyze_game reads the game record
\* (core/analysis.py:25-39, 240-252).
Setup ==
    /\ pc = "Start"
    /\ \E engine \in EngineOutcomes, pgn \in PgnOutcomes :
         LET r == setup_result(engine, pgn)
         IN /\ pc' = r.pc
            /\ setup' = [ variant |-> "core", engine |-> engine, pgn |-> pgn,
                          exc |-> r.exc, how |-> r.how ]
    /\ UNCHANGED << evalCalls, bestMoveCalls, idx, board, startTurn, side_to_analyze,
                    blunder_threshold, dbKind, cur, analysis, records, advisorCalls,
                    chatCalls, comments, saveCalls, rows >>

\* The script's analyze_game on an engine or a game record that fails it
\* (coach.py:146-166); the script's own loop is not walked here.
CoachSetupFails ==
    /\ pc = "Start"
    /\ \E engine \in EngineOutcomes, pgn \in PgnOutcomes :
         LET r == coach_setup_result(engine, pgn)
         IN /\ r.pc # "Scanning"
            /\ pc' = r.pc
            /\ setup' = [ variant |-> "script", engine |-> engine, pgn |-> pgn,
                          exc |-> r.exc, how |-> r.how ]
    /\ UNCHANGED << evalCalls, bestMoveCalls, idx, board, startTurn, side_to_analyze,
                    blunder_threshold, dbKind, cur, analysis, records, advisorCalls,
                    chatCalls, comments, saveCalls, rows >>

\* game.mainline() yields the next node: one pass of the loop body up to the
\* blunder test (core/analysis.py:254-298).
ScanMove ==
    /\ pc = "Scanning"
    /\ idx < MaxMoves
    /\ \E eb \in WalkEvals, ea \in WalkEvals, over \in BOOLEAN :
         LET c == loop_locals(startTurn, idx, eb, ea, over)
         IN /\ cur' = c
            /\ pc' = after_scan(c, side_to_analyze, blunder_threshold)
    /\ comments' = IF pc' = "Raised" THEN comments_at_raise(comments) ELSE comments
    /\ idx' = idx + 1
    /\ evalCalls' = evalCalls \o scan_queries(board)
    /\ board' = board_push(board)
    /\ UNCHANGED << setup, bestMoveCalls, startTurn, side_to_analyze,
                    blunder_threshold, dbKind, analysis, records, advisorCalls,
                    chatCalls, saveCalls, rows >>

\* _get_move_analysis (core/analysis.py:311-367): the board is popped, the
\* best move is asked for at the popped board, the move is pushed back, and
\* the Advisor is called. _load_system_prompt is called outside
\* get_analysis's try block (core/analysis.py:155) and raises
\* FileNotFoundError when the prompt file is not there; ollama.chat is then
\* not reached.
GetMoveAnalysis ==
    /\ pc = "Investigating"
    /\ bestMoveCalls' = Append(bestMoveCalls,
                               best_move_query(board_pop(board), Len(evalCalls)))
    /\ board' = investigating_board(board)
    /\ advisorCalls' = Append(advisorCalls, advisor_args(cur))
    /\ \E promptThere \in BOOLEAN, reply \in AdvisorReplies :
         IF promptThere
         THEN /\ chatCalls' = chatCalls \o [ i \in 1..chat_requests(reply) |-> cur.node ]
              /\ analysis' = analysis_dict(cur, get_analysis(reply))
              /\ records' = Append(records, analysis')
              /\ pc' = "Recording"
              /\ comments' = comments
         ELSE /\ pc' = "Raised"
              /\ comments' = comments_at_raise(comments)
              /\ UNCHANGED << chatCalls, analysis, records >>
    /\ UNCHANGED << setup, evalCalls, idx, startTurn, side_to_analyze,
                    blunder_threshold, dbKind, cur, saveCalls, rows >>

\* Mutant: the store is called first and the comment attached on its return.
handle_blunder_comments_after_save(cs, k, a, raised) ==
    IF raised THEN cs ELSE attach_comment(cs, k, a)

\* The comments when _handle_blunder returns or raises: node.comment is
\* assigned (core/analysis.py:382) before db.save_blunder is called
\* (core/analysis.py:385-396), so a call that raises leaves the comment on
\* the node.
handle_blunder_comments(cs, k, a, raised) == attach_comment(cs, k, a)

\* _handle_blunder (core/analysis.py:369-396): the comment, then the store.
HandleBlunder ==
    /\ pc = "Recording"
    /\ comments' = IF save_blunder_raises(dbKind)
                   THEN comments_at_raise(
                            handle_blunder_comments(comments, cur.node, analysis, TRUE))
                   ELSE handle_blunder_comments(comments, cur.node, analysis, FALSE)
    /\ saveCalls' = Append(saveCalls, analysis)
    /\ \E db \in DbStates, sqlite \in SqliteOutcomes :
         rows' = IF dbKind = "Database"
                 THEN Database_save_blunder(rows, handle_blunder_call(analysis, GamePath),
                                            db, sqlite).rows
                 ELSE rows
    /\ pc' = IF save_blunder_raises(dbKind) THEN "Raised" ELSE "Scanning"
    /\ analysis' = NoAnalysis
    /\ UNCHANGED << setup, evalCalls, bestMoveCalls, idx, board, startTurn,
                    side_to_analyze,
                    blunder_threshold, dbKind, cur, records, advisorCalls, chatCalls >>

\* game.mainline() is exhausted after idx half-moves: "Analysis complete."
\* (core/analysis.py:254, 308-309).
Finish ==
    /\ pc = "Scanning"
    /\ pc' = "Done"
    /\ UNCHANGED << setup, evalCalls, bestMoveCalls, idx, board, startTurn,
                    side_to_analyze,
                    blunder_threshold, dbKind, cur, analysis, records, advisorCalls,
                    chatCalls, comments, saveCalls, rows >>

NoScore == [ stage |-> "idle" ]

NoRuns == << >>

NoParse == [ stage |-> "idle" ]

NoStore == [ stage |-> "off" ]

NoEngines == [ stage |-> "off" ]

Init ==
    /\ WalkInit
    /\ sc = NoScore
    /\ runs = NoRuns
    /\ pa = NoParse
    /\ st = NoStore
    /\ eng = NoEngines

Next ==
    \/ (Setup /\ UNCHANGED << sc, runs, pa, st, eng >>)
    \/ (CoachSetupFails /\ UNCHANGED << sc, runs, pa, st, eng >>)
    \/ (ScanMove /\ UNCHANGED << sc, runs, pa, st, eng >>)
    \/ (GetMoveAnalysis /\ UNCHANGED << sc, runs, pa, st, eng >>)
    \/ (HandleBlunder /\ UNCHANGED << sc, runs, pa, st, eng >>)
    \/ (Finish /\ UNCHANGED << sc, runs, pa, st, eng >>)

Spec == Init /\ [][Next]_vars


\* ============================================================ SpecScore
\* The normaliser and the drop on their own: one half-move, scores around
\* zero and around the mate sentinel, every kind.
ScoreValues ==
    { b + d : b \in { 0 - mate_score, 0, mate_score }, d \in (0 - MaxDelta)..MaxDelta }

ScoreEvals == { [type |-> t, value |-> v] : t \in { "cp", "mate", "wdl" }, v \in ScoreValues }

ScoreInput(color, eb, ea, over, threshold) ==
    [ stage |-> "input",
      c |-> [ NoCur EXCEPT !.player_color = color, !.game_over = over,
                           !.eval_before_dict = eb, !.eval_after_dict = ea ],
      threshold |-> threshold, next |-> "Scanning", mate_missed |-> FALSE,
      coach_before |-> 0, coach_after |-> 0 ]

\* The walker is not running.
WalkIdleButRows ==
    /\ pc = "Done"
    /\ setup = NoSetup
    /\ evalCalls = << >>
    /\ bestMoveCalls = << >>
    /\ idx = 0
    /\ board = 0
    /\ chatCalls = << >>
    /\ startTurn = "White"
    /\ side_to_analyze = "both"
    /\ blunder_threshold = BLUNDER_THRESHOLD
    /\ dbKind = "MagicMock"
    /\ cur = NoCur
    /\ analysis = NoAnalysis
    /\ records = << >>
    /\ advisorCalls = << >>
    /\ comments = [ k \in Plies |-> NoComment ]
    /\ saveCalls = << >>

WalkIdle ==
    /\ WalkIdleButRows
    /\ rows = << >>

ScoreInit ==
    /\ WalkIdle
    /\ runs = NoRuns
    /\ pa = NoParse
    /\ st = NoStore
    /\ eng = NoEngines
    /\ sc \in { ScoreInput(color, eb, ea, over, threshold) :
                  color \in { "White", "Black" }, eb \in ScoreEvals, ea \in ScoreEvals,
                  over \in BOOLEAN, threshold \in Thresholds }

\* Both evaluations are normalised and the drop is taken, as one loop pass
\* does (core/analysis.py:262-283), and as the script's normaliser does
\* (coach.py:186, 196); the pass then meets the blunder test of a processor
\* analysing both sides (core/analysis.py:291-298), and the missed-mate flag
\* is the one its advisor would be handed (core/analysis.py:333-334).
Score ==
    /\ sc.stage = "input"
    /\ sc' = [ stage |-> "scored",
               c |-> loop_locals(sc.c.player_color, 0, sc.c.eval_before_dict,
                                 sc.c.eval_after_dict, sc.c.game_over),
               threshold |-> sc.threshold,
               next |-> after_scan(loop_locals(sc.c.player_color, 0, sc.c.eval_before_dict,
                                               sc.c.eval_after_dict, sc.c.game_over),
                                   "both", sc.threshold),
               mate_missed |-> advisor_args(sc.c).mate_missed,
               coach_before |-> coach_get_centipawns(sc.c.eval_before_dict),
               coach_after |-> coach_get_centipawns(sc.c.eval_after_dict) ]
    /\ UNCHANGED walkVars
    /\ UNCHANGED << runs, pa, st, eng >>

ScoreNext == Score

SpecScore == ScoreInit /\ [][ScoreNext]_vars

\* ============================================================ SpecSides
\* The same game walked three times, once per side filter, every evaluator,
\* prompt and advisor result being the same in the three walks.
SideFilters == { "white", "black", "both" }

\* Evaluations and advisor results the three walks are fed.
SideEvals == { Cp(50), Cp(200), Cp(1000), Mate(1), Other(0) }

SideReplies == { "ok", "transport_error" }

\* One whole loop pass of one walk (core/analysis.py:254-306), the
\* investigation and the recording included.
side_iteration(run, side, c, threshold, kind, promptThere, reply) ==
    IF run.pc # "Scanning" THEN run
    ELSE IF after_scan(c, side, threshold) # "Investigating"
         THEN [ run EXCEPT !.pc = after_scan(c, side, threshold) ]
    ELSE IF ~promptThere THEN [ run EXCEPT !.pc = "Raised" ]
    ELSE [ pc |-> IF save_blunder_raises(kind) THEN "Raised" ELSE "Scanning",
           records |-> Append(run.records, analysis_dict(c, get_analysis(reply))) ]

SidesInit ==
    /\ pc = "Done"
    /\ setup = NoSetup
    /\ evalCalls = << >>
    /\ bestMoveCalls = << >>
    /\ rows = << >>
    /\ idx = 0
    /\ board = 0
    /\ chatCalls = << >>
    /\ startTurn \in { "White", "Black" }
    /\ side_to_analyze = "both"
    /\ blunder_threshold \in Thresholds
    /\ dbKind \in DbKinds
    /\ cur = NoCur
    /\ analysis = NoAnalysis
    /\ records = << >>
    /\ advisorCalls = << >>
    /\ comments = [ k \in Plies |-> NoComment ]
    /\ saveCalls = << >>
    /\ sc = NoScore
    /\ pa = NoParse
    /\ st = NoStore
    /\ eng = NoEngines
    /\ runs = [ f \in SideFilters |-> [ pc |-> "Scanning", records |-> << >> ] ]

SidesIteration ==
    /\ idx < MaxMoves
    /\ \E f \in SideFilters : runs[f].pc = "Scanning"
    /\ \E eb \in SideEvals, ea \in SideEvals, over \in BOOLEAN,
          promptThere \in BOOLEAN, reply \in SideReplies :
         LET c == loop_locals(startTurn, idx, eb, ea, over)
         IN runs' = [ f \in SideFilters |->
                        side_iteration(runs[f], f, c, blunder_threshold, dbKind,
                                       promptThere, reply) ]
    /\ idx' = idx + 1
    /\ UNCHANGED << pc, setup, evalCalls, bestMoveCalls, board, startTurn,
                    side_to_analyze,
                    blunder_threshold, dbKind, cur, analysis, records, advisorCalls,
                    chatCalls, comments, saveCalls, rows, sc, pa, st, eng >>

SidesFinish ==
    /\ \E f \in SideFilters : runs[f].pc = "Scanning"
    /\ runs' = [ f \in SideFilters |->
                   IF runs[f].pc = "Scanning" THEN [ runs[f] EXCEPT !.pc = "Done" ]
                   ELSE runs[f] ]
    /\ UNCHANGED walkVars
    /\ UNCHANGED << sc, pa, st, eng >>

SidesNext ==
    \/ SidesIteration
    \/ SidesFinish

SpecSides == SidesInit /\ [][SidesNext]_vars

\* ============================================================ SpecParse
\* The advisor adapter on its own: one call, over what the chat call can do.
\* Whitespace around the body of a reply: 0..MaxPad runs on each side.
Pad(n) == [ i \in 1..n |-> WS ]

\* What a reply can be made of, from the outside in: text or whitespace
\* before, an opening fence with or without a language tag, the body, a
\* closing fence, whitespace after.
Befores == { << >>, << WS >>, Str("Here is the analysis:") }

Opens == { << >>, << FENCE >>, << FENCE, TAG_JSON >>, << FENCE, TAG_OTHER >> }

Bodies ==
    { << Obj(ks) >> : ks \in SUBSET Keys }
       \cup { << ARRAY >>, Str("The move hangs a knight."), << >>,
              << Obj(Keys), Text("Hope this helps.") >> }

Closes == { << >>, << FENCE >> }

Afters == { << >>, << WS >> }

Contents ==
    { before \o open \o Pad(p1) \o body \o Pad(p2) \o close \o after :
        before \in Befores, open \in Opens, p1 \in 0..MaxPad, body \in Bodies,
        p2 \in 0..MaxPad, close \in Closes, after \in Afters }

\* Exceptions the chat call raises.
TransportErrors == { "TimeoutError", "ConnectionError", "ResponseError" }

ChatOutcomes ==
    { ChatRaise(e) : e \in TransportErrors } \cup { ChatReply(c) : c \in Contents }

ParseInput(promptThere, chat) ==
    [ stage |-> "input", promptThere |-> promptThere, chat |-> chat,
      result |-> Raises(""), coach_result |-> Raises("") ]

ParseInit ==
    /\ WalkIdle
    /\ sc = NoScore
    /\ runs = NoRuns
    /\ st = NoStore
    /\ eng = NoEngines
    /\ pa \in { ParseInput(promptThere, chat) :
                  promptThere \in BOOLEAN, chat \in ChatOutcomes }

\* One call of LLMCoach.get_analysis (core/analysis.py:139-196) and one of
\* the script's get_llm_analysis (coach.py:56-134) on the same chat outcome.
Analyse ==
    /\ pa.stage = "input"
    /\ pa' = [ pa EXCEPT !.stage = "done",
                         !.result = LLMCoach_get_analysis(pa.promptThere, pa.chat),
                         !.coach_result = get_llm_analysis(pa.chat) ]
    /\ UNCHANGED walkVars
    /\ UNCHANGED << sc, runs, st, eng >>

ParseNext == Analyse

SpecParse == ParseInit /\ [][ParseNext]_vars

\* ============================================================ SpecStore
\* The Database on its own: the analysis is run up to MaxRuns times over one
\* source, each run handing the same records to save_blunder, either the
\* way _handle_blunder calls it or with the parameters it has.
\* The record of the half-move at ply k of a game that first started.
StoreRecord(first, k, reply) ==
    analysis_dict(loop_locals(first, k,
                              IF player_color_at(first, k) = "White"
                              THEN Cp(1000) ELSE Cp(50),
                              IF player_color_at(first, k) = "White"
                              THEN Cp(50) ELSE Cp(1000), FALSE),
                  get_analysis(reply))

\* The records of one run: those of the plies of ps, in move order.
BatchOf(first, ps, reply) ==
    LET n == Cardinality(ps)
        f == CHOOSE g \in [ 1..n -> ps ] : \A i, j \in 1..n : i < j => g[i] < g[j]
    IN [ i \in 1..n |-> StoreRecord(first, f[i], reply) ]

\* The pgn_path of another game analysed earlier.
OtherPath == "other.pgn"

\* The table before the runs: empty, or holding the row an earlier analysis
\* left (White's move of its second full move, Black having started), of
\* another game or under the path the runs are given: the file of a path is
\* removed after a request (api/main.py:84-85, coach.py:304-305), its rows
\* are not, and a later temporary file may get the same name.
StoreTables ==
    { << >>,
      << inserted_row(<< >>, signature_call(StoreRecord("Black", 1, "ok"),
                                            OtherPath).args) >>,
      << inserted_row(<< >>, signature_call(StoreRecord("Black", 1, "ok"),
                                            GamePath).args) >> }

StorePaths == { GamePath, OtherPath }

StoreCallers == { "handle_blunder", "signature" }

StoreInput(batch, caller, db) ==
    [ stage |-> "idle", run |-> 0, pos |-> 0, batch |-> batch, caller |-> caller,
      db |-> db, exc |-> "", query |-> NoQuery, start |-> 0 ]

StoreInit ==
    /\ WalkIdleButRows
    /\ rows \in StoreTables
    /\ sc = NoScore
    /\ runs = NoRuns
    /\ pa = NoParse
    /\ eng = NoEngines
    /\ st \in { StoreInput(BatchOf(first, ps, reply), caller, db) :
                  first \in { "White", "Black" }, ps \in SUBSET Plies,
                  reply \in AdvisorReplies, caller \in StoreCallers,
                  db \in DbStates }

\* analyze_game is called (again) over the same source.
StoreStartRun ==
    /\ st.stage \in { "idle", "finished", "aborted" }
    /\ st.run < MaxRuns
    /\ st' = [ st EXCEPT !.stage = "running", !.run = st.run + 1, !.pos = 1,
                         !.exc = "", !.query = NoQuery, !.start = Len(rows) ]
    /\ UNCHANGED walkVars
    /\ UNCHANGED << sc, runs, pa, eng >>

\* The save_blunder call of _handle_blunder for the next record of the run
\* (core/analysis.py:385-396, database.py:68-83); an exception ends the run.
StoreHandleBlunder ==
    /\ st.stage = "running"
    /\ st.pos <= Len(st.batch)
    /\ \E sqlite \in SqliteOutcomes :
         LET a    == st.batch[st.pos]
             call == IF st.caller = "handle_blunder"
                     THEN handle_blunder_call(a, GamePath)
                     ELSE signature_call(a, GamePath)
             r    == Database_save_blunder(rows, call, st.db, sqlite)
         IN /\ rows' = r.rows
            /\ st' = IF r.raised
                     THEN [ st EXCEPT !.stage = "aborted", !.exc = r.exc ]
                     ELSE [ st EXCEPT !.pos = st.pos + 1, !.db = "connected" ]
    /\ UNCHANGED walkVarsButRows
    /\ UNCHANGED << sc, runs, pa, eng >>

\* The run has handed over its last record: "Analysis complete."
StoreFinishRun ==
    /\ st.stage = "running"
    /\ st.pos > Len(st.batch)
    /\ st' = [ st EXCEPT !.stage = "finished" ]
    /\ UNCHANGED walkVars
    /\ UNCHANGED << sc, runs, pa, eng >>

\* db.get_blunders_by_pgn_path(path) between runs (api/main.py:74,
\* coach.py:298).
StoreQuery ==
    /\ st.stage \in { "idle", "finished", "aborted" }
    /\ \E path \in StorePaths, sqlite \in SqliteOutcomes :
         \E q \in Database_get_blunders_by_pgn_path(rows, path, st.db, sqlite) :
            st' = [ st EXCEPT !.query = q ]
    /\ UNCHANGED walkVars
    /\ UNCHANGED << sc, runs, pa, eng >>

StoreNext ==
    \/ StoreStartRun
    \/ StoreHandleBlunder
    \/ StoreFinishRun
    \/ StoreQuery

SpecStore == StoreInit /\ [][StoreNext]_vars


\* ========================================================== SpecEngines
\* Several analyses at once, started through the endpoint or through the
\* script's analyze_game. An adapter instance owns one engine process,
\* which holds the position last set in it; an evaluation is asked for in
\* two steps, set_fen_position and then get_evaluation (or get_best_move),
\* and steps of different analyses interleave freely.
Walks == 1..MaxWalks

\* Evaluator queries of one analysis: two per half-move.
MaxQueries == 2 * MaxMoves

Entries == { "endpoint", "script" }

\* The position of the k-th query of analysis w.
PositionOf(w, k) == << w, k >>

NoPosition == << >>

\* StockfishAnalyzer(stockfish_path=STOCKFISH_PATH) in the endpoint
\* (api/main.py:66, core/analysis.py:39) and Stockfish(path=..., depth=18)
\* in the script's analyze_game (coach.py:152) make a new instance on every
\* call: the made-th instance so far gets the next number.
new_adapter_shared(made) == 1

new_adapter(made) == made + 1

EnginesInit ==
    /\ WalkIdle
    /\ sc = NoScore
    /\ runs = NoRuns
    /\ pa = NoParse
    /\ st = NoStore
    /\ eng = [ stage   |-> "on",
               made    |-> 0,
               entry   |-> [ w \in Walks |-> "" ],
               adapter |-> [ w \in Walks |-> 0 ],
               held    |-> [ a \in Walks |-> NoPosition ],
               at      |-> [ w \in Walks |-> "new" ],
               k       |-> [ w \in Walks |-> 0 ],
               asked   |-> [ w \in Walks |-> NoPosition ],
               got     |-> [ w \in Walks |-> NoPosition ] ]

\* An analysis starts and constructs its adapter.
EngineConstruct(w) ==
    /\ eng.at[w] = "new"
    /\ \E entry \in Entries :
         eng' = [ eng EXCEPT !.made = eng.made + 1,
                             !.entry[w] = entry,
                             !.adapter[w] = new_adapter(eng.made),
                             !.at[w] = "ready" ]

\* self.stockfish.set_fen_position(board.fen()) (core/analysis.py:51, 64;
\* coach.py:36, 225).
EngineSetPosition(w) ==
    /\ eng.at[w] = "ready"
    /\ eng.k[w] < MaxQueries
    /\ eng' = [ eng EXCEPT !.held[eng.adapter[w]] = PositionOf(w, eng.k[w]),
                           !.asked[w] = PositionOf(w, eng.k[w]),
                           !.at[w] = "set" ]

\* return self.stockfish.get_evaluation() / get_best_move()
\* (core/analysis.py:52, 65; coach.py:37, 226): the answer is for the
\* position the engine of the adapter holds.
EngineRead(w) ==
    /\ eng.at[w] = "set"
    /\ eng' = [ eng EXCEPT !.got[w] = eng.held[eng.adapter[w]],
                           !.k[w] = eng.k[w] + 1,
                           !.at[w] = "ready" ]

\* The analysis is over (api/main.py:82-83).
EngineClose(w) ==
    /\ eng.at[w] = "ready"
    /\ eng' = [ eng EXCEPT !.at[w] = "done" ]

EnginesNext ==
    \/ (\E w \in Walks : EngineConstruct(w)) /\ UNCHANGED walkVars
                                              /\ UNCHANGED << sc, runs, pa, st >>
    \/ (\E w \in Walks : EngineSetPosition(w)) /\ UNCHANGED walkVars
                                                /\ UNCHANGED << sc, runs, pa, st >>
    \/ (\E w \in Walks : EngineRead(w)) /\ UNCHANGED walkVars
                                         /\ UNCHANGED << sc, runs, pa, st >>
    \/ (\E w \in Walks : EngineClose(w)) /\ UNCHANGED walkVars
                                          /\ UNCHANGED << sc, runs, pa, st >>

SpecEngines == EnginesInit /\ [][EnginesNext]_vars


\* ========================================================= SpecVariants
\* The same game walked by GameProcessor.analyze_game and by the script's
\* analyze_game (coach.py:136-263), both fed the same evaluations, the same
\* game-over answers and the same outcome of the chat call at every
\* half-move, with the same side filter. The script's threshold is its
\* module constant (coach.py:19), so the GameProcessor is given that one.
Variants == { "core", "script" }

\* Values passed as side_to_analyze: 'both', a colour name in lower case
\* and one in upper case, 'Both', and a word that names nothing.
VariantSides == { "both", "black", "WHITE", "Both", "pawns" }

\* Evaluations of the two kinds both normalisers know.
VariantEvals == { Cp(50), Cp(200), Mate(1), Mate(0 - 1) }

\* BLUNDER_THRESHOLD of the script (coach.py:19).
COACH_BLUNDER_THRESHOLD == 150

\* The locals of one pass of the script's loop up to the drop
\* (coach.py:178-202).
coach_loop_locals(first, k, eb, ea, over) ==
    LET color  == IF k % 2 = 0 THEN first ELSE Opposite(first)
        before == coach_get_centipawns(eb)
        after  == coach_get_centipawns(ea)
    IN [ node |-> k, player_color |-> color,
         move_number |-> IF first = "White" THEN 1 + (k \div 2) ELSE 1 + ((k + 1) \div 2),
         eval_before_dict |-> eb, eval_after_dict |-> ea,
         eval_before |-> before, eval_after |-> after,
         eval_drop |-> IF color = "White" THEN before - after ELSE after - before,
         game_over |-> over ]

\* The script goes on to the investigation (coach.py:211-215).
coach_investigates(c, side) ==
    /\ ~c.game_over
    /\ (side = "both" \/ Lower(side) = Lower(c.player_color))
    /\ c.eval_drop > COACH_BLUNDER_THRESHOLD

\* What get_llm_analysis returns (coach.py:109-134), by what the chat call
\* did.
coach_get_llm_analysis(reply) ==
    CASE reply = "ok"        -> << "Fork", "Blunder", "explanation" >>
      [] reply = "malformed" -> << "Uncategorized", "Error", "raw content" >>
      [] OTHER               -> << "Error", "Error", "Error getting analysis from Ollama" >>

\* node.comment of the script (coach.py:247), for the triple t.
coach_node_comment(t) == << "[COACH]", t[2], t[1], t[3] >>

\* The db.save_blunder call of the script (coach.py:250-261).
coach_save_call(c, t, pgn_path) ==
    [ keywords |-> { "pgn_path", "move_number", "player_color", "move_san",
                     "position_fen", "eval_drop", "best_move_san", "coach_comment",
                     "motif", "severity" },
      args |-> [ pgn_path |-> pgn_path, move_number |-> c.move_number,
                 player_color |-> c.player_color, move_san |-> c.node,
                 position_fen |-> c.node, eval_drop |-> c.eval_drop,
                 best_move_san |-> c.node, coach_comment |-> t[3],
                 motif |-> t[1], severity |-> t[2] ] ]

\* The game chess.pgn.read_game gives (coach.py:159, core/analysis.py:242):
\* its headers, the moves of its mainline, and the comment of each
\* mainline node, which the file may have given a note to.
GameNote == << "a note" >>

GameComments == { [ k \in Plies |-> NoComment ], [ k \in Plies |-> GameNote ] }

GameRead(cs) ==
    [ headers |-> << "White", "Black" >>, moves |-> [ k \in Plies |-> k ],
      comments |-> cs ]

\* A run before its first half-move, over the game g: no evaluation asked
\* for yet, no half-move stepped.
NoVariantRun(g) ==
    [ pc |-> "Scanning", exc |-> "", read |-> g,
      headers |-> g.headers, moves |-> g.moves, comments |-> g.comments,
      saveCalls |-> << >>, evals |-> 0,
      last |-> [ node |-> 0 - 1, player_color |-> "White", eval_drop |-> 0,
                 game_over |-> FALSE ] ]

\* What a run keeps of the locals of the half-move last stepped.
last_of(c) ==
    [ node |-> c.node, player_color |-> c.player_color, eval_drop |-> c.eval_drop,
      game_over |-> c.game_over ]

\* One whole pass of the script's loop (coach.py:173-261). The prompt is
\* inline (coach.py:70-93); a call the Database rejects raises TypeError out
\* of the loop.
coach_iteration(run, first, k, eb, ea, over, side, kind, reply) ==
    LET c == coach_loop_locals(first, k, eb, ea, over)
        t == coach_get_llm_analysis(reply)
        call == coach_save_call(c, t, GamePath)
        rejected == kind = "Database" /\ call.keywords # SaveBlunderParams
    IN IF run.pc # "Scanning" THEN run
       ELSE IF ~coach_investigates(c, side)
            THEN [ run EXCEPT !.evals = run.evals + 2, !.last = last_of(c) ]
       ELSE [ run EXCEPT
                !.pc = IF rejected THEN "Raised" ELSE "Scanning",
                !.exc = IF rejected THEN "TypeError" ELSE "",
                !.comments = [ run.comments EXCEPT ![k] = coach_node_comment(t) ],
                !.saveCalls = Append(run.saveCalls, call),
                !.evals = run.evals + 2, !.last = last_of(c) ]

\* One whole pass of GameProcessor's loop (core/analysis.py:254-306).
core_iteration(run, first, k, eb, ea, over, side, threshold, kind, promptThere, reply) ==
    LET c    == loop_locals(first, k, eb, ea, over)
        next == after_scan(c, side, threshold)
        a    == analysis_dict(c, get_analysis(reply))
        here == [ run EXCEPT !.evals = run.evals + 2, !.last = last_of(c) ]
    IN IF run.pc # "Scanning" THEN run
       ELSE IF next = "Raised" THEN [ here EXCEPT !.pc = "Raised", !.exc = "TypeError" ]
       ELSE IF next # "Investigating" THEN here
       ELSE IF ~promptThere
            THEN [ here EXCEPT !.pc = "Raised", !.exc = "FileNotFoundError" ]
       ELSE [ here EXCEPT
                !.pc = IF save_blunder_raises(kind) THEN "Raised" ELSE "Scanning",
                !.exc = IF save_blunder_raises(kind) THEN "TypeError" ELSE "",
                !.comments = handle_blunder_comments(run.comments, k, a,
                                                     save_blunder_raises(kind)),
                !.saveCalls = Append(run.saveCalls, handle_blunder_call(a, GamePath)) ]

VariantsInit ==
    /\ pc = "Done"
    /\ setup = NoSetup
    /\ evalCalls = << >>
    /\ bestMoveCalls = << >>
    /\ rows = << >>
    /\ idx = 0
    /\ board = 0
    /\ chatCalls = << >>
    /\ startTurn \in { "White", "Black" }
    /\ side_to_analyze \in VariantSides
    /\ blunder_threshold = COACH_BLUNDER_THRESHOLD
    /\ dbKind \in DbKinds
    /\ cur = NoCur
    /\ analysis = NoAnalysis
    /\ records = << >>
    /\ advisorCalls = << >>
    /\ comments = [ k \in Plies |-> NoComment ]
    /\ saveCalls = << >>
    /\ sc = NoScore
    /\ pa = NoParse
    /\ st = NoStore
    /\ eng = NoEngines
    /\ runs \in { [ v \in Variants |-> NoVariantRun(GameRead(cs)) ] :
                    cs \in GameComments }

\* Both variants take the next mainline node.
VariantsIteration ==
    /\ idx < MaxMoves
    /\ \E v \in Variants : runs[v].pc = "Scanning"
    /\ \E eb \in VariantEvals, ea \in VariantEvals, over \in BOOLEAN,
          promptThere \in BOOLEAN, reply \in AdvisorReplies :
         runs' = [ v \in Variants |->
                     IF v = "core"
                     THEN core_iteration(runs[v], startTurn, idx, eb, ea, over,
                                         side_to_analyze, blunder_threshold, dbKind,
                                         promptThere, reply)
                     ELSE coach_iteration(runs[v], startTurn, idx, eb, ea, over,
                                          side_to_analyze, dbKind, reply) ]
    /\ idx' = idx + 1
    /\ UNCHANGED << pc, setup, evalCalls, bestMoveCalls, board, startTurn,
                    side_to_analyze, blunder_threshold, dbKind, cur, analysis,
                    records, advisorCalls, chatCalls, comments, saveCalls, rows,
                    sc, pa, st, eng >>

\* Both mainlines are exhausted: "Analysis complete." (core/analysis.py:308,
\* coach.py:263).
VariantsFinish ==
    /\ \E v \in Variants : runs[v].pc = "Scanning"
    /\ runs' = [ v \in Variants |->
                   IF runs[v].pc = "Scanning" THEN [ runs[v] EXCEPT !.pc = "Done" ]
                   ELSE runs[v] ]
    /\ UNCHANGED walkVars
    /\ UNCHANGED << sc, pa, st, eng >>

VariantsNext ==
    \/ VariantsIteration
    \/ VariantsFinish

SpecVariants == VariantsInit /\ [][VariantsNext]_vars

\* ============================================================ properties
\* The statements below restate the requirements in their own terms; they
\* do not use is_blunder, skips_game_over, eval_drop_of or get_centipawns
\* unless the requirement is about the function itself.

\* A side filter accepts a mover colour: 'both', or that colour's name.
SideAccepts(side, color) ==
    \/ side = "both"
    \/ (side \in { "white", "White" } /\ color = "White")
    \/ (side \in { "black", "Black" } /\ color = "Black")

\* The half-move last stepped qualifies: not terminal, drop strictly above
\* the threshold, colour in scope.
Qualifies(c) ==
    /\ c.has_drop
    /\ ~c.game_over
    /\ c.eval_drop > blunder_threshold
    /\ SideAccepts(side_to_analyze, c.player_color)

RecordsFor(k) == { i \in 1..Len(records) : records[i].move_san = k }

\* The pass over the half-move last stepped was cut short by the prompt
\* file missing (FileNotFoundError out of get_analysis).
PromptRaised == pc = "Raised" /\ Len(advisorCalls) > Len(records)

\* The pass over the half-move last stepped has run to its end, or to the
\* store call.
PassOver == cur.node >= 0 /\ pc \in { "Scanning", "Done", "Raised" } /\ ~PromptRaised

C2_DropNonNegative ==
    \A i \in 1..Len(saveCalls) : saveCalls[i].eval_drop >= 0

\* C2 (amended): for every threshold >= 0, every record created and every
\* record handed to the store has eval_drop >= 0.
C2_DropNonNegativeFromZero ==
    blunder_threshold >= 0 =>
        /\ \A i \in 1..Len(saveCalls) : saveCalls[i].eval_drop >= 0
        /\ \A i \in 1..Len(records) : records[i].eval_drop >= 0

\* C2 witness: a record was handed to the store under threshold 0.
C2_Witness ==
    /\ blunder_threshold = 0
    /\ Len(saveCalls) >= 1
    /\ saveCalls[Len(saveCalls)].eval_drop > 0

\* C3: nothing is created for a half-move whose post-move position ends the
\* game. Every step that adds a record, makes an Advisor call or changes a
\* comment does so for the half-move last stepped, and that half-move's
\* post-move position is not terminal.
C3_Step ==
    /\ records' # records =>
          /\ ~cur.game_over /\ cur' = cur
          /\ Len(records') = Len(records) + 1
          /\ SubSeq(records', 1, Len(records)) = records
          /\ records'[Len(records')].move_san = cur.node
    /\ advisorCalls' # advisorCalls =>
          /\ ~cur.game_over /\ cur' = cur
          /\ Len(advisorCalls') = Len(advisorCalls) + 1
          /\ SubSeq(advisorCalls', 1, Len(advisorCalls)) = advisorCalls
          /\ advisorCalls'[Len(advisorCalls')].move_san = cur.node
    /\ comments' # comments =>
          /\ ~cur.game_over /\ cur' = cur
          /\ \A k \in Plies : k # cur.node => comments'[k] = comments[k]
    /\ saveCalls' # saveCalls => (~cur.game_over /\ cur' = cur)

C3_NothingForGameEndingMove == [][C3_Step]_vars

\* C3 witness: a game-ending half-move of a colour in scope, with a drop
\* above the threshold, was passed over and nothing was created for it.
C3_Witness ==
    /\ pc = "Scanning"
    /\ cur.node >= 0 /\ cur.game_over
    /\ cur.has_drop /\ cur.eval_drop > blunder_threshold
    /\ SideAccepts(side_to_analyze, cur.player_color)
    /\ RecordsFor(cur.node) = {}
    /\ comments[cur.node] = NoComment

\* C4: with side filter 'white' every record (created, or handed to the
\* store) has mover colour White; with 'black', Black.
C4_SideFilterColour ==
    /\ side_to_analyze = "white" =>
          /\ \A i \in 1..Len(records) : records[i].player_color = "White"
          /\ \A i \in 1..Len(saveCalls) : saveCalls[i].player_color = "White"
    /\ side_to_analyze = "black" =>
          /\ \A i \in 1..Len(records) : records[i].player_color = "Black"
          /\ \A i \in 1..Len(saveCalls) : saveCalls[i].player_color = "Black"

\* C4 witness: under 'white', a White move was recorded and a later Black
\* move with a drop above the threshold was passed over.
C4_Witness ==
    /\ side_to_analyze = "white"
    /\ pc = "Scanning"
    /\ Len(records) >= 1
    /\ cur.player_color = "Black"
    /\ cur.has_drop /\ ~cur.game_over /\ cur.eval_drop > blunder_threshold
    /\ RecordsFor(cur.node) = {}

RunRecords(f) == { runs[f].records[i] : i \in 1..Len(runs[f].records) }

NoRunRaised == \A f \in SideFilters : runs[f].pc # "Raised"

C6_DropFromMoversView ==
    (sc.stage = "scored" /\ sc.c.has_drop) =>
        LET b == sc.c.eval_before.val
            a == sc.c.eval_after.val
            d == sc.c.eval_drop
            white == sc.c.player_color = "White"
        IN /\ white => d = b - a
           /\ ~white => d = a - b
           /\ (white /\ a < b) => d > 0
           /\ (~white /\ a > b) => d > 0
           /\ eval_drop_of(Opposite(sc.c.player_color), 0 - b, 0 - a) = d

\* C6 witness: a Black move after which the score rose was scored.
C6_Witness ==
    /\ sc.stage = "scored" /\ sc.c.has_drop
    /\ sc.c.player_color = "Black"
    /\ sc.c.eval_after.val > sc.c.eval_before.val
    /\ sc.c.eval_drop > 0

\* The scenario: Black to move, 50 before, 1000 after, threshold 150.
Scenario(c) ==
    /\ c.node >= 0
    /\ c.player_color = "Black"
    /\ c.eval_before_dict = Cp(50)
    /\ c.eval_after_dict = Cp(1000)
    /\ blunder_threshold = 150

\* C7: in the scenario the drop is 950; when the post-move position is not
\* terminal and Black is in scope, exactly one record is created for the
\* move, with colour Black and drop 950, and the move's node carries the coach
\* comment of that record; no node carries a comment unless it has a record
\* whose drop exceeds the threshold.
C7_Scenario ==
    /\ Scenario(cur) => (cur.has_drop /\ cur.eval_drop = 950)
    /\ (Scenario(cur) /\ ~cur.game_over /\ PassOver
          /\ SideAccepts(side_to_analyze, "Black")) =>
          /\ Cardinality(RecordsFor(cur.node)) = 1
          /\ \A i \in RecordsFor(cur.node) :
                /\ records[i].player_color = "Black"
                /\ records[i].eval_drop = 950
                /\ comments[cur.node] =
                      << "[COACH]", records[i].severity, records[i].motif,
                         records[i].explanation >>
    /\ blunder_threshold = 150 =>
          \A k \in Plies : comments[k] # NoComment =>
              \E i \in RecordsFor(k) : records[i].eval_drop > 150

\* C7 witness: the scenario move was recorded and commented, after a move
\* that was neither.
C7_Witness ==
    /\ Scenario(cur) /\ cur.node = 1
    /\ pc = "Scanning"
    /\ comments[1] # NoComment
    /\ comments[0] = NoComment
    /\ Len(records) = 1

\* C8: when the pre-move score is a mate score and the post-move score a
\* centipawn value v, the drop has magnitude at least 30000 - |v|.
C8_MissedMateDrop ==
    (sc.stage = "scored" /\ sc.c.eval_before_dict.type = "mate"
       /\ sc.c.eval_after_dict.type = "cp") =>
        /\ sc.c.has_drop
        /\ Abs(sc.c.eval_drop) >= 30000 - Abs(sc.c.eval_after_dict.value)

\* C8 witness: a mate for Black missed by Black, with a small centipawn
\* score after the move.
C8_Witness ==
    /\ sc.stage = "scored"
    /\ sc.c.player_color = "Black"
    /\ sc.c.eval_before_dict = Mate(0 - 1)
    /\ sc.c.eval_after_dict = Cp(1)
    /\ sc.c.eval_drop = 30001

C10_UnknownKindIsZero ==
    (cur.node >= 0 /\ cur.eval_before_dict.type \notin { "cp", "mate" }) =>
        /\ cur.eval_before = Some(0)
        /\ cur.has_drop
        /\ pc # "Raised"

\* ------------------------------------------------- the advisor adapter
IsSolid(t) == t.kind # "ws"

\* A str without its whitespace.
Solid(content) == SelectSeq(content, IsSolid)

NotMarker(t) == t.kind \notin { "fence", "tag" }

\* A reply with its fence markers (and the language tag) taken away.
Unfenced(content) == SelectSeq(content, NotMarker)

\* The adapter was called, the prompt was there, and the chat call answered.
Replied == pa.stage = "done" /\ pa.promptThere /\ pa.chat.kind = "reply"

\* C11: when the chat call raises (a timeout, a connection failure, any
\* other exception), get_analysis does not raise and returns "Error",
\* "Error" and a diagnostic message that names the exception; so does the
\* script's get_llm_analysis. (With the prompt file missing the chat call
\* is not reached.)
C11_TransportErrorTriple ==
    (pa.stage = "done" /\ pa.chat.kind = "raise") =>
        /\ pa.promptThere =>
              /\ ~pa.result.raised
              /\ pa.result.triple =
                    << Str("Error"), Str("Error"),
                       << Text("Error getting analysis from Ollama: "), Text(pa.chat.exc) >> >>
        /\ ~pa.coach_result.raised
        /\ pa.coach_result.triple =
              << Str("Error"), Str("Error"),
                 << Text("Error getting analysis from Ollama: "), Text(pa.chat.exc) >> >>

\* C11 witness: the chat call timed out and the adapter returned the
\* error triple.
C11_Witness ==
    /\ pa.stage = "done" /\ pa.promptThere
    /\ pa.chat = ChatRaise("TimeoutError")
    /\ ~pa.result.raised
    /\ pa.result.triple[1] = Str("Error")

\* C13 (as stated): when the reply is not the text of a JSON object (it is
\* not JSON, or it is JSON but not an object), get_analysis returns
\* "Uncategorized", "Error" and the reply's text (up to whitespace) as the
\* explanation. Stated for replies without fence markers.
C13_UnparsableIsRawContent ==
    (Replied /\ Unfenced(pa.chat.content) = pa.chat.content
       /\ ~(Len(Solid(pa.chat.content)) = 1 /\ Solid(pa.chat.content)[1].kind = "object")) =>
        /\ ~pa.result.raised
        /\ pa.result.triple[1] = Str("Uncategorized")
        /\ pa.result.triple[2] = Str("Error")
        /\ Solid(pa.result.triple[3]) = Solid(pa.chat.content)

\* The default of a key.
DefaultOf(key) ==
    CASE key = "motif"    -> Str("Uncategorized")
      [] key = "severity" -> Str("Unknown")
      [] OTHER            -> Str("No explanation provided.")

\* The reply is the text of one JSON object, bare or in a json fence, with
\* whitespace around it or not.
IsObjectReply(content) ==
    \/ (Len(Solid(content)) = 1 /\ Solid(content)[1].kind = "object")
    \/ (Len(Solid(content)) = 4 /\ Solid(content)[1] = FENCE /\ Solid(content)[2] = TAG_JSON
           /\ Solid(content)[3].kind = "object" /\ Solid(content)[4] = FENCE)

ObjectOf(content) == Solid(content)[Len(Solid(content)) \div 2 + 1]

\* C14: when the reply parses as an object, each of motif, severity and
\* explanation is the object's value for the key if the key is present and
\* the key's own default otherwise, for every subset of present keys.
C14_KeysDefaultIndependently ==
    (Replied /\ IsObjectReply(pa.chat.content)) =>
        LET present == ObjectOf(pa.chat.content).keys
            field(key) == IF key \in present THEN ObjectValue(key) ELSE DefaultOf(key)
        IN /\ ~pa.result.raised
           /\ pa.result.triple = << field("motif"), field("severity"), field("explanation") >>
           /\ pa.coach_result = pa.result

\* C14 witness: an object with the severity only was parsed.
C14_Witness ==
    /\ Replied
    /\ pa.chat.content = << Obj({ "severity" }) >>
    /\ pa.result.triple =
          << Str("Uncategorized"), Str("Blunder"), Str("No explanation provided.") >>

\* The reply is one JSON object between an opening fence (with a language
\* tag or without) and a closing fence.
IsFencedObject(content) ==
    LET t == Solid(content)
    IN /\ Len(t) \in { 3, 4 }
       /\ t[1] = FENCE /\ t[Len(t)] = FENCE
       /\ t[Len(t) - 1].kind = "object"
       /\ Len(t) = 4 => t[2].kind = "tag"

\* C15 (as stated): a reply whose object is wrapped in fence markers, with
\* or without a language tag on the opening fence, gives the same result as
\* the same reply without the markers.
C15_FencedParsesAsUnfenced ==
    (Replied /\ IsFencedObject(pa.chat.content)) =>
        pa.result = LLMCoach_get_analysis(TRUE, ChatReply(Unfenced(pa.chat.content)))

\* ------------------------------------------------- failures and the store
\* The record created last is the one of the half-move last stepped, and
\* _handle_blunder has been entered for it.
LastRecordHandled ==
    /\ Len(records) >= 1
    /\ records[Len(records)].move_san = cur.node
    /\ pc # "Recording"

\* C12 (as stated): when the chat call times out while a qualifying
\* half-move is investigated, the record is created with motif "Error" and
\* severity "Error", the move's comment shows the error, the record is handed
\* to the store and (with the Database) a row of the store shows it, and
\* the walk is not aborted.
C12_TimeoutStillRecorded ==
    (LastRecordHandled /\ records[Len(records)].motif = "Error") =>
        LET a == records[Len(records)]
        IN /\ a.severity = "Error"
           /\ comments[cur.node] = << "[COACH]", "Error", "Error", a.explanation >>
           /\ Len(saveCalls) = Len(records)
           /\ dbKind = "Database" =>
                 \E k \in 1..Len(rows) :
                     /\ rows[k].game_pgn_path = GamePath
                     /\ rows[k].move_san = a.move_san
                     /\ rows[k].coach_comment = a.explanation
           /\ pc # "Raised"

\* C16 (as stated): when the append of a record to the store fails (the
\* record was handed to the Database and the table has no row for it), the
\* walk is not aborted and the move's comment stays.
C16_StoreFailureSwallowed ==
    (dbKind = "Database" /\ LastRecordHandled /\ Len(saveCalls) = Len(records)
       /\ \A k \in 1..Len(rows) : rows[k].move_san # cur.node) =>
        /\ pc \in { "Scanning", "Done" }
        /\ comments[cur.node] # NoComment

\* C17: when the evaluator cannot be constructed or the game record is
\* missing, unreadable or holds no game, the analysis stops before any
\* half-move: no evaluator query, no Advisor call, no record, no comment, no
\* store call; and the failure comes out with its cause. GameProcessor's
\* caller gets the exception; the script prints the cause and returns (an
\* open() error other than a missing file is raised there too).
C17_FatalBeforeAnyMove ==
    (setup.engine \in { "not_found", "init_error" }
       \/ setup.pgn \in { "not_found", "unreadable", "empty" }) =>
        /\ pc \in { "Aborted", "Returned" }
        /\ evalCalls = << >> /\ idx = 0 /\ cur = NoCur
        /\ advisorCalls = << >> /\ records = << >>
        /\ saveCalls = << >> /\ rows = << >>
        /\ \A k \in Plies : comments[k] = NoComment
        /\ setup.exc # ""
        /\ setup.how \in { "raised", "printed" }
        /\ pc = "Aborted" <=> setup.how = "raised"
        /\ setup.variant = "core" =>
              /\ setup.how = "raised"
              /\ setup.exc =
                    (IF setup.engine = "not_found" THEN "FileNotFoundError"
                     ELSE IF setup.engine = "init_error" THEN "Exception"
                     ELSE IF setup.pgn = "not_found" THEN "FileNotFoundError"
                     ELSE IF setup.pgn = "unreadable" THEN "PermissionError"
                     ELSE "ValueError")

\* C17 witness: the engine started, the game record held no game, and
\* analyze_game raised ValueError.
C17_Witness ==
    /\ pc = "Aborted"
    /\ setup.variant = "core"
    /\ setup.engine = "ok" /\ setup.pgn = "empty"
    /\ setup.exc = "ValueError"
    /\ evalCalls = << >>

\* a comes before b in move order: an earlier full move, or the same full
\* move with a White's and b Black's.
Precedes(a, b) ==
    \/ a.move_number < b.move_number
    \/ (a.move_number = b.move_number /\ a.player_color = "White"
          /\ b.player_color = "Black")

\* C18: the records are created, and handed to the recorder, in ascending
\* move order: of two records the later one has no smaller move number, and
\* within one full move White's record comes before Black's.
C18_AscendingMoveOrder ==
    /\ \A i, j \in 1..Len(records) : i < j => Precedes(records[i], records[j])
    /\ \A i, j \in 1..Len(saveCalls) : i < j => Precedes(saveCalls[i], saveCalls[j])
    /\ \A i \in 1..Len(saveCalls) : saveCalls[i] = records[i]

\* C18 witness: White's and Black's record of the same full move were
\* handed to the recorder, in that order.
C18_Witness ==
    /\ Len(saveCalls) = 2
    /\ saveCalls[1].move_number = saveCalls[2].move_number
    /\ saveCalls[1].player_color = "White"
    /\ saveCalls[2].player_color = "Black"

\* C20 (as stated): with the Database, every record handed to the store
\* has exactly one row among the rows the query by the source returns, and
\* that row has the record's colour, move, motif and severity.
C20_OneRowPerBlunder ==
    (dbKind = "Database" /\ pc # "Recording") =>
        \A i \in 1..Len(saveCalls) :
            \A result \in get_blunders_by_pgn_path(rows, GamePath) :
                LET hits == { k \in 1..Len(result) : result[k].move_san = saveCalls[i].move_san }
                IN /\ Cardinality(hits) = 1
                   /\ \A k \in hits :
                         /\ result[k].player_color = saveCalls[i].player_color
                         /\ "motif" \in DOMAIN result[k]
                         /\ "severity" \in DOMAIN result[k]
                         /\ result[k].motif = saveCalls[i].motif
                         /\ result[k].severity = saveCalls[i].severity

\* The rows of the table that belong to the game walked.
IsOfGame(row) == row.game_pgn_path = GamePath

\* C19 (as stated): after k runs of the analysis over the same source with
\* the same results, the store holds k copies of the records of one run
\* for that source, in the order they were handed over.
C19_RunsAppendCopies ==
    (st.stage \in { "finished", "aborted" } /\ st.caller = "handle_blunder") =>
        LET mine == SelectSeq(rows, IsOfGame)
            n    == Len(st.batch)
        IN /\ Len(mine) = st.run * n
           /\ \A j \in 1..Len(mine) :
                 /\ mine[j].move_san = st.batch[((j - 1) % n) + 1].move_san
                 /\ mine[j].player_color = st.batch[((j - 1) % n) + 1].player_color

\* ------------------------------------------------------------------- C21
\* The records _handle_blunder has been given so far: the first
\* Len(saveCalls) of them.
Handled == 1..Len(saveCalls)

\* C21: the comment of every record handled is the one string made of the
\* marker, then that record's own severity, then its motif in parentheses,
\* then its explanation, and it sits on the node of the move the record is
\* about; a node carries a comment only if a handled record is about its
\* move.
C21_CommentFromOwnRecord ==
    /\ \A i \in Handled :
          /\ records[i].move_san \in Plies
          /\ comments[records[i].move_san] =
                << "[COACH]", records[i].severity, records[i].motif,
                   records[i].explanation >>
    /\ \A k \in Plies :
          comments[k] # NoComment => \E i \in Handled : records[i].move_san = k

\* C21 witness: two half-moves were recorded with different Advisor
\* results, and each node carries the comment of its own record.
C21_Witness ==
    /\ Len(saveCalls) = 2
    /\ records[1].move_san = 0 /\ records[2].move_san = 1
    /\ records[1].motif = "Uncategorized" /\ records[2].motif = "Fork"
    /\ comments[0] = << "[COACH]", "Error", "Uncategorized", "raw content" >>
    /\ comments[1] = << "[COACH]", "Blunder", "Fork", "explanation" >>

\* ------------------------------------------------------------------- C22
\* The rows of the table whose source is the path.
StoredOf(path) == { k \in 1..Len(rows) : rows[k].game_pgn_path = path }

\* The list is exactly the stored rows of the path, each once, none of
\* another source, by ascending move number.
ExactlyStoredOf(result, path) ==
    /\ Len(result) = Cardinality(StoredOf(path))
    /\ \A k \in StoredOf(path) : \E i \in 1..Len(result) : result[i] = rows[k]
    /\ \A i \in 1..Len(result) : result[i].game_pgn_path = path
    /\ \A i, j \in 1..Len(result) :
          i < j => result[i].move_number <= result[j].move_number

\* C22 (as stated): whatever get_blunders_by_pgn_path returns is exactly the
\* stored rows of the source asked for, none of any other source, by
\* ascending move number.
C22_QueryReturnsStoredOfSource ==
    (st.stage # "off" /\ st.query.asked /\ ~st.query.raised) =>
        ExactlyStoredOf(st.query.result, st.query.pgn_path)

\* C22 (amended): when its SELECT succeeds, get_blunders_by_pgn_path returns
\* exactly the stored rows of the source asked for, none of any other
\* source, by ascending move number; when the SELECT raises sqlite3.Error it
\* returns the empty list.
C22_QueryReturnsStoredWhenSelectRuns ==
    (st.stage # "off" /\ st.query.asked /\ ~st.query.raised) =>
        IF st.query.failed
        THEN st.query.result = << >>
        ELSE ExactlyStoredOf(st.query.result, st.query.pgn_path)

\* C22 witness: the table holds a row of another game and two runs' rows of
\* this game, inserted with move numbers 1, 2, 1, 2; the query for this
\* game returned the four of them, reordered.
C22_Witness ==
    /\ st.stage = "finished"
    /\ st.query.asked /\ ~st.query.raised /\ ~st.query.failed
    /\ st.query.pgn_path = GamePath
    /\ Len(rows) = 5
    /\ rows[1].game_pgn_path = OtherPath
    /\ Len(st.query.result) = 4
    /\ st.query.result[2].id > st.query.result[3].id

\* ------------------------------------------------------------------- C23
\* C23: every analysis, started through the endpoint or through the
\* script, has an adapter of its own: no two analyses hold the same adapter
\* instance, and every answer an analysis has read is for the position it
\* set itself just before, whatever the other analyses did in between.
C23_OwnAdapterPerWalk ==
    eng.stage = "on" =>
        /\ \A v, w \in Walks :
              (v # w /\ eng.adapter[v] # 0 /\ eng.adapter[w] # 0) =>
                  eng.adapter[v] # eng.adapter[w]
        /\ \A w \in Walks :
              /\ eng.k[w] > 0 => eng.got[w] = PositionOf(w, eng.k[w] - 1)
              /\ eng.at[w] = "set" => eng.held[eng.adapter[w]] = eng.asked[w]

\* C23 witness: an analysis started through the endpoint had set its
\* position, another one started through the script then set and read its
\* own, and the first one still read the answer for its position.
C23_Witness ==
    /\ eng.stage = "on"
    /\ eng.entry[1] = "endpoint" /\ eng.entry[2] = "script"
    /\ eng.k[1] = 1 /\ eng.at[1] = "ready" /\ eng.got[1] = PositionOf(1, 0)
    /\ eng.k[2] = 2 /\ eng.at[2] = "set"

\* ------------------------------------------------------------------- C24
\* C24 (as stated): whatever fails inside the Advisor call of an
\* investigated half-move, the preparing of the prompt included, no
\* exception leaves the investigation and a record, degraded if need be, is
\* produced: every get_analysis call made has its record.
C24_AdvisorFailureIsolated ==
    \A i \in 1..Len(advisorCalls) :
        /\ RecordsFor(advisorCalls[i].move_san) # {}
        /\ ~PromptRaised

\* ------------------------------------------------------------------- C25
\* The coach.get_analysis calls, and the _handle_blunder calls (each of
\* which sets the comment and calls db.save_blunder once), made for ply k.
AdvisorCallsFor(k) == { i \in 1..Len(advisorCalls) : advisorCalls[i].move_san = k }

HandlingsFor(k) == { i \in 1..Len(saveCalls) : saveCalls[i].move_san = k }

\* C25: a half-move has at most one record; a record has exactly one
\* Advisor call and, once it has been handed to _handle_blunder, exactly
\* one comment attachment and exactly one db.save_blunder call; and a
\* half-move that did not pass the gate (drop not above the threshold,
\* colour out of scope, or game over) has no Advisor call, no comment and
\* no db.save_blunder call. The records, the Advisor calls and the
\* _handle_blunder calls are in strictly ascending ply order and match one
\* to one; only a record still on its way to _handle_blunder has no
\* comment and no db.save_blunder call yet.
C25_OncePerRecord ==
    /\ \A i \in 1..(Len(records) - 1) : records[i].move_san < records[i + 1].move_san
    /\ \A i \in 1..(Len(advisorCalls) - 1) :
          advisorCalls[i].move_san < advisorCalls[i + 1].move_san
    /\ Len(advisorCalls) = Len(records) + (IF PromptRaised THEN 1 ELSE 0)
    /\ \A i \in 1..Len(records) : advisorCalls[i].move_san = records[i].move_san
    /\ Len(records) = Len(saveCalls) + (IF pc = "Recording" THEN 1 ELSE 0)
    /\ \A i \in 1..Len(saveCalls) : saveCalls[i] = records[i]
    /\ \A k \in Plies :
          comments[k] # NoComment <=> \E i \in 1..Len(saveCalls) : saveCalls[i].move_san = k
    /\ \A i \in 1..Len(advisorCalls) :
          LET k == advisorCalls[i].move_san
          IN /\ k \in 0..(idx - 1)
             /\ advisorCalls[i].cp_loss > blunder_threshold
             /\ SideAccepts(side_to_analyze, IF k % 2 = 0 THEN startTurn
                                             ELSE Opposite(startTurn))
             /\ k = cur.node => ~cur.game_over

\* C25 witness: the first half-move did not pass the gate and caused
\* nothing; the second was recorded, with one Advisor call, one comment and
\* one db.save_blunder call.
C25_Witness ==
    /\ pc = "Scanning" /\ idx = 2
    /\ RecordsFor(0) = {} /\ AdvisorCallsFor(0) = {} /\ HandlingsFor(0) = {}
    /\ comments[0] = NoComment
    /\ Cardinality(RecordsFor(1)) = 1
    /\ Cardinality(AdvisorCallsFor(1)) = 1
    /\ Cardinality(HandlingsFor(1)) = 1
    /\ comments[1] # NoComment

\* ------------------------------------------------------------------- C26
\* C26: after N half-moves the evaluation has been asked for exactly 2N
\* times, for each half-move at the position before it and then at the
\* position after it, the last half-move of a finished game included, and
\* the position after a half-move is asked again as the position before the
\* next; the best move is asked for once per investigation, at the position
\* before the investigated half-move and after that half-move's two
\* evaluations, so once per record when the walk is done.
C26_TwoEvaluationsPerMove ==
    /\ Len(evalCalls) = 2 * idx
    /\ \A k \in 0..(idx - 1) :
          /\ evalCalls[2 * k + 1] = k
          /\ evalCalls[2 * k + 2] = k + 1
    /\ Len(bestMoveCalls) = Len(advisorCalls)
    /\ \A i \in 1..Len(bestMoveCalls) :
          /\ bestMoveCalls[i].position = advisorCalls[i].move_san
          /\ bestMoveCalls[i].evaluations = 2 * (bestMoveCalls[i].position + 1)
    /\ pc = "Done" => Len(bestMoveCalls) = Len(records)

\* C26 witness: a game of two half-moves, the second ending it; the first
\* was investigated. Four evaluations and one best-move query were made.
C26_Witness ==
    /\ pc = "Done" /\ idx = 2 /\ cur.game_over
    /\ Len(records) = 1 /\ records[1].move_san = 0
    /\ evalCalls = << 0, 1, 1, 2 >>
    /\ bestMoveCalls = << [ position |-> 0, evaluations |-> 2 ] >>

\* ------------------------------------------------------------------- C27
\* The db.save_blunder call of the half-move last stepped raised.
StoreRaised ==
    /\ pc = "Raised"
    /\ save_blunder_raises(dbKind)
    /\ HandlingsFor(cur.node) # {}

\* C27 (as stated): a walk whose evaluator, Advisor and store calls have
\* all returned ends nowhere but in Done: it is never left in the middle of
\* the mainline by an exception. ("Raised" is final: no step leaves it.)
C27_WalkReachesDone ==
    pc = "Raised" => (PromptRaised \/ StoreRaised)

\* ------------------------------------------------------------------- C28
\* The colour to move and the full-move number at the position before the
\* half-move at ply k.
MoverAt(k) == IF k % 2 = 0 THEN startTurn ELSE Opposite(startTurn)

FullMoveAt(k) == IF startTurn = "White" THEN 1 + (k \div 2) ELSE 1 + ((k + 1) \div 2)

\* C28: the i-th investigation asks for the best move at the position
\* before its half-move and calls the Advisor with that position, the move
\* played, that best move, the drop that passed the gate, and a missed-mate
\* flag that is true exactly when the raw score before the move was of the
\* mate kind; its record has the mover, the full-move number and the
\* position of before the move.
C28_AdvisorSeesPreMove ==
    /\ \A i \in 1..Len(advisorCalls) :
          /\ i <= Len(bestMoveCalls)
          /\ bestMoveCalls[i].position = advisorCalls[i].move_san
          /\ advisorCalls[i].best_move_san = bestMoveCalls[i].position
    /\ \A i \in 1..Len(advisorCalls) :
          LET a == advisorCalls[i]
          IN /\ a.position_fen = a.move_san
             /\ a.cp_loss > blunder_threshold
             /\ a.move_san = cur.node =>
                   /\ a.cp_loss = cur.eval_drop
                   /\ a.mate_missed <=> cur.eval_before_dict.type = "mate"
    /\ \A i \in 1..Len(records) :
          LET r == records[i]
          IN /\ r.position_fen = r.move_san
             /\ r.player_color = MoverAt(r.move_san)
             /\ r.move_number = FullMoveAt(r.move_san)
             /\ \E j \in 1..Len(advisorCalls) :
                   /\ advisorCalls[j].move_san = r.move_san
                   /\ advisorCalls[j].position_fen = r.position_fen
                   /\ advisorCalls[j].best_move_san = r.best_move_san
                   /\ advisorCalls[j].cp_loss = r.eval_drop

\* C28 witness: Black, who had a mate before the move and none after it,
\* was investigated at the second half-move: the flag is set, and the
\* record is Black's, of full move 1, at the position after one move.
C28_Witness ==
    /\ pc = "Recording" /\ cur.node = 1 /\ startTurn = "White"
    /\ cur.eval_before_dict.type = "mate" /\ cur.eval_after_dict.type = "cp"
    /\ Len(advisorCalls) = 1
    /\ advisorCalls[1].mate_missed
    /\ advisorCalls[1].position_fen = 1
    /\ records[1].player_color = "Black" /\ records[1].move_number = 1

C30_InvestigatingKeepsBoard ==
    /\ board = idx
    /\ pc \in { "Investigating", "Recording" } => board = cur.node + 1
    /\ idx > 0 => evalCalls[Len(evalCalls)] = board
    /\ \A i \in 1..Len(bestMoveCalls) : bestMoveCalls[i].position < board

\* C30 witness: the first half-move was investigated and recorded, and the
\* pass of the second asked for its first evaluation at the position after
\* one move.
C30_Witness ==
    /\ idx = 2 /\ board = 2
    /\ Len(records) >= 1 /\ records[1].move_san = 0
    /\ bestMoveCalls[1].position = 0
    /\ evalCalls[3] = 1
    /\ comments[0] # NoComment

\* ------------------------------------------------------------------- C31
\* C31: when an exception has left the walk at the half-move of ply k,
\* every record created for a half-move before k is still there, its move
\* still carries its coach comment, and its db.save_blunder call has been
\* made and is not taken back: what was done before k stays done. Only the
\* half-moves up to k have been looked at, so the records are those of a
\* part of the game.
C31_AbortKeepsEarlier ==
    pc = "Raised" =>
        /\ \A i \in 1..Len(records) :
              records[i].move_san < cur.node =>
                  /\ comments[records[i].move_san] = coach_comment(records[i])
                  /\ i <= Len(saveCalls)
                  /\ saveCalls[i] = records[i]
        /\ \A j \in Plies : j > cur.node => comments[j] = NoComment
        /\ \A i \in 1..Len(saveCalls) : saveCalls[i].move_san <= cur.node

\* C31 witness: the first half-move was recorded, annotated and handed to
\* the store; the investigation of the second was cut short by the prompt
\* file missing.
C31_Witness ==
    /\ PromptRaised /\ cur.node = 1
    /\ Len(records) = 1 /\ records[1].move_san = 0
    /\ comments[0] = coach_comment(records[1])
    /\ saveCalls = << records[1] >>

C33_VariantsAgree ==
    /\ runs["core"].saveCalls = runs["script"].saveCalls
    /\ runs["core"].comments = runs["script"].comments

\* The two agree as long as GameProcessor's Advisor found its prompt file.
VariantsAgreeWithPrompt ==
    runs["core"].exc # "FileNotFoundError" =>
        /\ runs["core"].saveCalls = runs["script"].saveCalls
        /\ runs["core"].comments = runs["script"].comments
        /\ runs["core"].pc = runs["script"].pc

\* ------------------------------------------------------------------- C34
\* The colour a side filter names, in whatever case; "" when it names none.
ColourNamed(side) ==
    IF side \in { "white", "White", "WHITE" } THEN "White"
    ELSE IF side \in { "black", "Black" } THEN "Black"
    ELSE ""

\* C34: in GameProcessor's walk and in the script's alike, a filter that
\* names a colour in any case lets through that colour's half-moves only;
\* a filter that is neither 'both' in lower case nor a colour's name
\* ('Both', an unknown word) raises nothing, has both evaluations asked
\* for at every half-move stepped, and gives no store call and no coach
\* comment, however large the drops are.
C34_FilterCaseAndUnknown ==
    \A v \in Variants :
        /\ ColourNamed(side_to_analyze) # "" =>
              \A i \in 1..Len(runs[v].saveCalls) :
                  runs[v].saveCalls[i].args.player_color = ColourNamed(side_to_analyze)
        /\ (side_to_analyze # "both" /\ ColourNamed(side_to_analyze) = "") =>
              /\ runs[v].pc # "Raised"
              /\ runs[v].evals = 2 * idx
              /\ runs[v].saveCalls = << >>
              /\ runs[v].comments = runs[v].read.comments

\* C34 witness: under 'Both' both variants have stepped through the whole
\* game, the last half-move throwing a forced mate away (a drop of 29950)
\* with the game not over, and neither has a store call.
C34_Witness ==
    /\ side_to_analyze = "Both" /\ idx = MaxMoves
    /\ \A v \in Variants :
          /\ runs[v].pc = "Done"
          /\ runs[v].last.node = MaxMoves - 1
          /\ runs[v].last.eval_drop = mate_score - 50 /\ ~runs[v].last.game_over
          /\ runs[v].evals = 2 * MaxMoves
          /\ runs[v].saveCalls = << >>

\* ------------------------------------------------------------------- C35
\* The db.save_blunder calls a run has made for the move of ply k: one for
\* each record it created for that move.
VariantCallsFor(v, k) ==
    { i \in 1..Len(runs[v].saveCalls) : runs[v].saveCalls[i].args.move_san = k }

\* C35: at every point of a walk the headers and the moves of the game are
\* the ones read; a node for whose move no record was created has the
\* comment it was read with; and a node for whose move a record was
\* created has exactly the coach comment of that record, whatever it was
\* read with: the note is neither kept nor added to.
C35_OnlyFlaggedCommentsChange ==
    \A v \in Variants :
        /\ runs[v].headers = runs[v].read.headers
        /\ runs[v].moves = runs[v].read.moves
        /\ \A k \in Plies :
              IF VariantCallsFor(v, k) = {}
              THEN runs[v].comments[k] = runs[v].read.comments[k]
              ELSE \A i \in VariantCallsFor(v, k) :
                      runs[v].comments[k] =
                          << "[COACH]", runs[v].saveCalls[i].args.severity,
                             runs[v].saveCalls[i].args.motif,
                             runs[v].saveCalls[i].args.coach_comment >>

\* C35 witness: every node of the game was read with a note; the move of
\* the first half-move was flagged and now carries the coach comment alone,
\* and the second node, not flagged, still has its note.
C35_Witness ==
    /\ idx = 2
    /\ runs["core"].read.comments[0] = GameNote
    /\ VariantCallsFor("core", 0) # {} /\ VariantCallsFor("core", 1) = {}
    /\ runs["core"].pc = "Scanning"
    /\ runs["core"].comments[0] = << "[COACH]", "Blunder", "Fork", "explanation" >>
    /\ runs["core"].comments[1] = GameNote

\* ------------------------------------------------------------------ C36
InRange(v) == v >= 0 - mate_score /\ v <= mate_score

MoversMate(color) == IF color = "White" THEN mate_score ELSE 0 - mate_score

\* C36: with a threshold of at least 0 and both normalised scores within
\* [-30000, 30000], a half-move that is recorded with the missed-mate flag
\* true had a pre-move forced mate in the mover's favour (+30000 for a White
\* mover, -30000 for a Black mover), and a half-move whose mover was being
\* mated before the move is not recorded.
C36_MissedMateWasMovers ==
    (sc.stage = "scored" /\ sc.threshold >= 0 /\ sc.c.has_drop
       /\ InRange(sc.c.eval_before.val) /\ InRange(sc.c.eval_after.val)) =>
        /\ (sc.next = "Investigating" /\ sc.mate_missed) =>
               sc.c.eval_before.val = MoversMate(sc.c.player_color)
        /\ (sc.c.eval_before_dict.type = "mate"
              /\ sc.c.eval_before.val = MoversMate(Opposite(sc.c.player_color))) =>
               sc.next # "Investigating"

\* Black had a forced mate, played into an even position, and is recorded
\* with the flag true at the default threshold.
C36_Witness ==
    /\ sc.stage = "scored"
    /\ sc.threshold = BLUNDER_THRESHOLD
    /\ sc.c.player_color = "Black"
    /\ sc.c.eval_before_dict = Mate(0 - 2)
    /\ sc.c.eval_after_dict = Cp(0)
    /\ sc.c.eval_before.val = 0 - mate_score
    /\ ~sc.c.game_over
    /\ sc.next = "Investigating"
    /\ sc.mate_missed

\* ------------------------------------------------------------------ C37
\* The side a forced-mate evaluation is a mate for: the sign of the raw
\* value names it, and a raw value of 0 is the engine's answer at a position
\* whose side to move is checkmated.
MateSide(e, to_move) ==
    IF e.value > 0 THEN "White"
    ELSE IF e.value < 0 THEN "Black"
    ELSE Opposite(to_move)

BothMate == sc.c.eval_before_dict.type = "mate" /\ sc.c.eval_after_dict.type = "mate"

\* The half-move was played, so the position before it was not a checkmate.
MateBeforeFor(side) ==
    sc.c.eval_before_dict.value # 0 /\ MateSide(sc.c.eval_before_dict, sc.c.player_color) = side

MateAfterFor(side) ==
    MateSide(sc.c.eval_after_dict, Opposite(sc.c.player_color)) = side

AnnotatedMoves == { k \in Plies : comments[k] # NoComment }

\* C38: at every point of a walk, whether it goes on or has been aborted,
\* the node of each store call made so far, and so of each row appended,
\* already carries the coach comment of that call; and there are no more
\* rows than store calls, and no more store calls than annotated moves.
C38_CommentBeforeAppend ==
    /\ \A i \in 1..Len(saveCalls) :
          comments[saveCalls[i].move_san] = coach_comment(saveCalls[i])
    /\ \A i \in 1..Len(rows) :
          /\ rows[i].move_san \in AnnotatedMoves
          /\ \E j \in 1..Len(saveCalls) : saveCalls[j].move_san = rows[i].move_san
    /\ Len(rows) <= Len(saveCalls)
    /\ Len(saveCalls) <= Cardinality(AnnotatedMoves)

\* C38 witness: the store call for the first half-move raised; the call
\* was made, and the node carries its comment.
C38_Witness ==
    /\ pc = "Raised"
    /\ dbKind = "Database"
    /\ Len(saveCalls) = 1
    /\ saveCalls[1].move_san = 0
    /\ comments[0] = coach_comment(saveCalls[1])
    /\ AnnotatedMoves = { 0 }
    /\ rows = << >>

====
